---- MODULE Spec2Model ----
(***************************************************************************)
(* Deal-context bot, as state machines: the HubSpot credential cache, the  *)
(* batch reader, the association resolver, the thread context cache and    *)
(* the deal search of src/api/slack/utils.js, the timeline formatter and   *)
(* the question classifier of src/api/slack/hubspot-data.js, and the       *)
(* events handler (handleAppMention under withTimeoutNotification) of      *)
(* src/unnamed/part_000.                                                   *)
(* Every await of the source is a step boundary: the code between two      *)
(* awaits runs without interleaving (one Node.js event loop per request,   *)
(* Redis shared by all requests).                                          *)
(***************************************************************************)
EXTENDS Integers, Sequences, FiniteSets, TLC

\* ------------------------------------------------------------------ bounds
NumCallers == 2
MaxTicks == 1
StartMs == 100000
MaxIds == 120
MaxObjId == 2
MaxAssocLen == 2
MaxSingles == 2
BacklogSize == 39
MaxRich == 1
LineBudget == 400
NumThreadCallers == 3
MaxAdvances == 3
ClockStep == 46800
MaxCandidates == 3
MaxSlackElapses == 2

\* ------------------------------------------------------- program constants
\* utils.js:307  const bufferMs = 60 * 1000
bufferMs == 60 * 1000
\* utils.js:384  ids.slice(0, 50)
BatchCeiling == 50
\* hubspot-data.js:14  .slice(0, 100)
FetchCeiling == 100

\* One clock tick, in ms (a bound of the model: the grain of Date.now()).
TickMs == 30000

\* An absent Redis key / a JS null: token ids are the positive integers.
NULL == 0

Callers == 1..NumCallers

\* The token endpoint issues a new access token with every exchange: the one
\* it issues to request p, the one it issues to the OAuth callback, and the
\* refresh token that comes with the latter.
FreshToken(p) == p
CbToken == NumCallers + 1
RefreshToken == NumCallers + 2

VARIABLES
    store,      \* Redis: hubspot:access_token, hubspot:refresh_token, hubspot:expires_at_ms
    now,        \* Date.now()
    pc,         \* per getHubSpotAccessToken() call: the await it is suspended at
    loc,        \* per call: its local variables
    res,        \* per call: what it returned or threw
    nExch,      \* per call: token-endpoint requests it issued
    nWrites,    \* per call: redis.set commands it completed
    cb,         \* the OAuth callback handler (callback.js)
    everRefresh,\* a refresh token has been stored at some time
    bat,        \* one batchRead() call
    asc,        \* one getDealAssociations() call
    tl,         \* one formatTimelineForPrompt() call and its arguments
    thr,        \* the slack:thread:* keys of Redis and the calls that use them
    fbd,        \* one findBestDeal() call and the search result it reads
    orc,        \* one handleAppMention() call: its position and its requests
    ntf,        \* one withTimeoutNotification() call: its flag, timer and promises
    slk,        \* the Slack side: the token cached in the process, the messages sent
    sbt,        \* the slack:* keys of Redis, one getSlackBotToken() call, the Slack OAuth callback
    ftc,        \* the four per-kind fetches of one phase 3 and the await on them
    cmd         \* one /summary or /plan request: its pipeline, flag, timer and messages

credVars == <<store, now, pc, loc, res, nExch, nWrites, cb, everRefresh>>
vars == <<store, now, pc, loc, res, nExch, nWrites, cb, everRefresh, bat, asc, tl, thr,
          fbd, orc, ntf, slk, sbt, ftc, cmd>>
\* The events handler: the orchestrator, the notifier and what they post.
evtVars == <<orc, ntf, slk>>
\* The components that share nothing with the ones above.
restVars == <<sbt, ftc, cmd>>
\* What the steps of one component leave alone.
notCred == <<bat, asc, tl, thr, fbd, evtVars, restVars>>
notBat == <<credVars, asc, tl, thr, fbd, evtVars, restVars>>
notAsc == <<credVars, bat, tl, thr, fbd, evtVars, restVars>>
notTl == <<credVars, bat, asc, thr, fbd, evtVars, restVars>>
notThr == <<credVars, bat, asc, tl, fbd, evtVars, restVars>>
notFbd == <<credVars, bat, asc, tl, thr, evtVars, restVars>>
notEvt == <<credVars, bat, asc, tl, thr, fbd, restVars>>

\* ------------------------------------------------- String(n) and Number(s)
\* hubspot:expires_at_ms holds String(newExpiresAt) and is read back with
\* Number(expiresAtMsStr): strings are sequences of characters.
DigitChars == <<"0", "1", "2", "3", "4", "5", "6", "7", "8", "9">>

RECURSIVE String(_)
String(n) ==
    IF n < 10 THEN <<DigitChars[n + 1]>>
    ELSE String(n \div 10) \o <<DigitChars[(n % 10) + 1]>>

DigitValue(c) == (CHOOSE d \in 1..10 : DigitChars[d] = c) - 1

IsDigit(c) == \E d \in 1..10 : DigitChars[d] = c

RECURSIVE DecimalValue(_)
DecimalValue(s) ==
    IF Len(s) = 0 THEN 0
    ELSE 10 * DecimalValue(SubSeq(s, 1, Len(s) - 1)) + DigitValue(s[Len(s)])

\* Number(s) of a string: "" is 0, a digit string its value, anything else NaN.
Number(s) ==
    IF \A i \in 1..Len(s) : IsDigit(s[i])
    THEN [nan |-> FALSE, v |-> DecimalValue(s)]
    ELSE [nan |-> TRUE, v |-> 0]

\* utils.js:302  expiresAtMsStr ? Number(expiresAtMsStr) : 0
ParseExpiresAt(str) == IF Len(str) = 0 THEN [nan |-> FALSE, v |-> 0] ELSE Number(str)

\* JS truthiness of a number: neither 0 nor NaN.
TruthyNumber(x) == ~x.nan /\ x.v # 0

\* Mutant of StillValid: the buffer is applied on both sides of the comparison.
StillValid_DoubleBuffer(access, expiresAtMs, t) ==
    /\ access # NULL
    /\ TruthyNumber(expiresAtMs)
    /\ t + bufferMs < expiresAtMs.v - bufferMs

\* utils.js:308  access && expiresAtMs && now < expiresAtMs - bufferMs
StillValid(access, expiresAtMs, t) ==
    /\ access # NULL
    /\ TruthyNumber(expiresAtMs)
    /\ t < expiresAtMs.v - bufferMs

\* Mutant of HasRefresh: the not-connected check is skipped.
HasRefresh_Unchecked(refresh) == TRUE

\* utils.js:304  if (!refresh) throw ...
HasRefresh(refresh) == refresh # NULL

\* utils.js:319  Number(data.expires_in || 0)
ExpiresInOf(data) == IF data.has_expires_in THEN data.expires_in ELSE 0

\* utils.js:320  Date.now() + expiresIn * 1000
ExpiryAfter(t, expiresIn) == t + expiresIn * 1000

\* Lifetimes (s) the token endpoint answers with; it may also omit expires_in.
ExpiresInChoices == {90, 1800}

TokenResponses ==
    {[has_expires_in |-> TRUE, expires_in |-> e] : e \in ExpiresInChoices}
        \cup {[has_expires_in |-> FALSE, expires_in |-> 0]}

NoLoc ==
    [access |-> NULL, refresh |-> NULL, expiresAtMs |-> [nan |-> FALSE, v |-> 0],
     now |-> 0, upstream |-> "none", lifetime |-> 0, exchangedAt |-> 0,
     newAccess |-> NULL, newExpiresAt |-> 0]

NoRes == [kind |-> "none", token |-> NULL, expiry |-> 0, at |-> 0,
          stored |-> [access |-> NULL, expires |-> <<>>]]

\* ------------------------------------------- idle states of the other calls
BatIdle == [pc |-> "idle", ids |-> <<>>, inputs |-> <<>>, notFound |-> {},
            requests |-> 0, outcome |-> "none", hasResults |-> FALSE,
            results |-> <<>>]

NoLookup == [status |-> "pending", has_results |-> FALSE, results |-> <<>>]

AscIdle == [pc |-> "idle", contacts |-> NoLookup, companies |-> NoLookup,
            outcome |-> "none", contactIds |-> <<>>, companyIds |-> <<>>]

\* formatTimelineForPrompt not called yet: no argument has a value.
NullArg == [null |-> TRUE, list |-> <<>>]

TlIdle == [pc |-> "args", emails |-> NullArg, calls |-> NullArg, meetings |-> NullArg,
           notes |-> NullArg, singles |-> 0, backlog |-> FALSE,
           items |-> <<>>, limit |-> 0, out |-> <<>>]

\* findBestDeal not called yet: the search will return the candidates of
\* results, in that order.
NoDeal == [id |-> 0, closedate |-> <<>>]

FbdIdle == [pc |-> "args", results |-> <<>>, requests |-> 0, outcome |-> "none",
            deal |-> NoDeal]

\* The process has just loaded the module: no Slack token is cached in it and
\* nothing has been posted.
SlkIdle == [cachedToken |-> FALSE, posts |-> <<>>]

\* Nothing is stored under slack:*, Redis answers, neither the Slack OAuth
\* callback nor getSlackBotToken has been called. Nil is what a missing key,
\* a missing field or an unset environment variable reads as (falsy).
Nil == ""

NoSlackData == [access_token |-> Nil, refresh_token |-> Nil]

SbtIdle == [redis |-> [access |-> Nil, refresh |-> Nil, expires |-> <<>>],
            up |-> TRUE, clock |-> StartMs, elapses |-> 0,
            call |-> [pc |-> "idle", envToken |-> Nil, client |-> FALSE, upAtCall |-> TRUE,
                      access |-> Nil, refresh |-> Nil,
                      expiresAtMs |-> [nan |-> FALSE, v |-> 0], now |-> 0,
                      newAccess |-> Nil, newRefresh |-> Nil, newExpiresAt |-> 0,
                      readFailed |-> FALSE, outcome |-> "none", token |-> Nil,
                      error |-> Nil],
            callback |-> [pc |-> "idle", data |-> NoSlackData, expiresAtMs |-> 0,
                          status |-> 0]]

\* Phase 3 has not started: no fetch has been called.
ActivityKinds == {"emails", "notes", "calls", "meetings"}

FetchIdle == [pc |-> "none", ids |-> <<>>, got |-> <<>>, failed |-> FALSE,
              outcome |-> "none", value |-> <<>>]

FtcIdle == [pipe |-> "idle", kinds |-> [k \in ActivityKinds |-> FetchIdle]]

\* No slash command has been received: no timer is armed, nothing is posted.
CmdIdle == [pc |-> "idle", command |-> "none", response_url |-> FALSE, finished |-> FALSE,
            timer |-> "none", msgs |-> <<>>, warnedAt |-> "none", outcome |-> "none"]

\* withTimeoutNotification not called yet.
NtfIdle == [pc |-> "idle", work |-> "none", reaction |-> FALSE, finished |-> FALSE,
            timer |-> "none", fired |-> 0, atCeiling |-> "none",
            during |-> "none", channel_id |-> <<>>, thread_ts |-> <<>>]

\* The calls handleAppMention makes, by the phase that awaits them.
Phase1Calls == {"getBotUserId", "getSlackChannelInfo", "getHubSpotAccessToken"}
Phase2Calls == {"findBestDeal", "getChannelHistory"}
Phase3Calls == {"resolveOwnerName", "getDealAssociations", "fetchDealEmails", "fetchDealNotes",
                "fetchDealCalls", "fetchDealMeetings", "getThreadContext", "getThreadHistory"}
BatchCalls == {"batchRead contacts", "batchRead companies"}
Phase4Calls == {"callOpenAIForQA", "storeThreadContext"}
OtherCalls == {"getSlackChannelName", "slackPost"}
CallNames == Phase1Calls \cup Phase2Calls \cup Phase3Calls \cup BatchCalls \cup Phase4Calls
                 \cup OtherCalls

NoInfo == [is_channel |-> "undefined", is_private |-> "undefined", named |-> FALSE]

NoRequired == [emails |-> FALSE, notes |-> FALSE, calls |-> FALSE, meetings |-> FALSE,
               contacts |-> FALSE, companies |-> FALSE]

\* handleAppMention not called yet. A call is "none" (not made), "token" (a
\* Slack helper awaiting getSlackBotToken), "pending" (its request is in
\* flight), "fulfilled" or "rejected".
OrcIdle == [pc |-> "idle", channel_id |-> <<>>, thread_ts |-> <<>>, text |-> <<>>,
            calls |-> [c \in CallNames |-> "none"],
            question |-> <<>>, channelInfo |-> NoInfo, isPublic |-> FALSE,
            deal |-> "unknown", requiredData |-> NoRequired,
            contactIds |-> FALSE, companyIds |-> FALSE, threw |-> FALSE,
            promise |-> "none", cached |-> "unknown"]

\* ------------------------------------------------ utils.js: thread context
\* utils.js:268  redis.set(key, ..., "EX", 86400): the time to live, in seconds
ThreadTtl == 86400

\* The ids Slack gives: channel ids are letters and digits, thread
\* timestamps digits and a dot. Two threads, in two channels, whose ids run
\* together to the same text: C1 with 11.5 and C11 with 1.5.
Threads == {<<<<"C", "1">>, <<"1", "1", ".", "5">>>>, <<<<"C", "1", "1">>, <<"1", ".", "5">>>>}

\* Mutant of ThreadKey: the ids are joined with nothing between them.
ThreadKey_NoSeparator(channel_id, thread_ts) ==
    <<"s", "l", "a", "c", "k", ":", "t", "h", "r", "e", "a", "d", ":">> \o channel_id \o thread_ts

\* utils.js:262, 272, 283  `slack:thread:${channel_id}:${thread_ts}`
ThreadKey(channel_id, thread_ts) ==
    <<"s", "l", "a", "c", "k", ":", "t", "h", "r", "e", "a", "d", ":">> \o channel_id \o <<":">> \o thread_ts

ThreadKeys == {ThreadKey(th[1], th[2]) : th \in Threads}

\* A property that is undefined.
Undefined == "undefined"

\* The JSON text of a message object is one element of the text of the
\* context that holds it; so is the text of a deal id.
RECURSIVE JsonElements(_, _)
JsonElements(messages, i) ==
    IF i > Len(messages) THEN <<>>
    ELSE (IF i > 1 THEN <<",">> ELSE <<>>) \o <<messages[i]>> \o JsonElements(messages, i + 1)

\* utils.js:268, 284  JSON.stringify({messages, dealId, lastUpdated}): a
\* property that is undefined is left out.
JsonStringify(context) ==
    <<"{", "\"messages\":", "[">> \o JsonElements(context.messages, 1) \o <<"]">>
        \o (IF context.dealId = Undefined THEN <<>> ELSE <<",", "\"dealId\":", context.dealId>>)
        \o <<",", "\"lastUpdated\":">> \o String(context.lastUpdated) \o <<"}">>

\* The index of the one element of text that is mark.
IndexOf(text, mark) == CHOOSE i \in 1..Len(text) : text[i] = mark

\* utils.js:275  JSON.parse(data)
JsonParse(text) ==
    LET open == IndexOf(text, "[")
        close == IndexOf(text, "]")
        stamp == IndexOf(text, "\"lastUpdated\":")
    IN  [messages |-> SelectSeq(SubSeq(text, open + 1, close - 1), LAMBDA e : e # ","),
         dealId |-> IF \E i \in 1..Len(text) : text[i] = "\"dealId\":"
                    THEN text[IndexOf(text, "\"dealId\":") + 1] ELSE Undefined,
         lastUpdated |-> DecimalValue(SubSeq(text, stamp + 1, Len(text) - 1))]

\* Date.now(), in ms, when the clock shows t seconds.
DateNow(t) == t * 1000

\* Redis: what SET key value EX seconds leaves under the key at time t.
\* writtenAt and owner record the write and its caller's ids.
RedisSetEx(value, seconds, t, owner) ==
    [set |-> TRUE, value |-> value, expireAt |-> t + seconds, writtenAt |-> t, owner |-> owner]

\* Redis: a key is gone once its time to live has run out.
Live(entry, t) == entry.set /\ t <= entry.expireAt

\* Redis: GET, the value or nil (here the empty text).
RedisGet(entry, t) == IF Live(entry, t) THEN entry.value ELSE <<>>

\* Mutant of PushMessage: the message goes to the front.
PushMessage_Front(context, message, t) ==
    [context EXCEPT !.messages = <<message>> \o @, !.lastUpdated = DateNow(t)]

\* utils.js:281-282  context.messages.push(message); context.lastUpdated = Date.now()
PushMessage(context, message, t) ==
    [context EXCEPT !.messages = Append(@, message), !.lastUpdated = DateNow(t)]

NoContext == [messages |-> <<>>, dealId |-> Undefined, lastUpdated |-> 0]
NullResult == [null |-> TRUE, context |-> NoContext]
NoEntry == [set |-> FALSE, value |-> <<>>, expireAt |-> 0, writtenAt |-> 0, owner |-> <<>>]
NoCall == [fn |-> "none", pc |-> "idle", channel |-> <<>>, thread |-> <<>>, key |-> <<>>,
           messages |-> <<>>, dealId |-> Undefined, message |-> "", data |-> <<>>,
           found |-> FALSE, context |-> NoContext, result |-> NullResult,
           writes |-> 0, readAt |-> 0, readFrom |-> NoEntry]

\* The callers of the thread context functions, one call each.
ThrCallers == 1..NumThreadCallers

\* callback.js:311-314  the question and the answer of the first turn
FirstTurn == <<"q1", "a1">>
\* callback.js:501  the message of a later turn
NextMessages == {"q2"}
\* The deal id handed to storeThreadContext.
DealIds == {"D1", Undefined}

\* No thread context is stored and no call is in progress.
ThrIdle == [clock |-> 0, advances |-> 0, redis |-> [k \in ThreadKeys |-> NoEntry],
            call |-> [p \in ThrCallers |-> NoCall]]

\* ------------------------------------------------------- credential cache
\* Nothing is stored yet, no request is in progress.
Init ==
    /\ store = [access |-> NULL, refresh |-> NULL, expires |-> <<>>]
    /\ now = StartMs
    /\ pc = [p \in Callers |-> "idle"]
    /\ loc = [p \in Callers |-> NoLoc]
    /\ res = [p \in Callers |-> NoRes]
    /\ nExch = [p \in Callers |-> 0]
    /\ nWrites = [p \in Callers |-> 0]
    /\ cb = [pc |-> "idle", access |-> NULL, refresh |-> NULL, expiresAtMs |-> 0]
    /\ everRefresh = FALSE
    /\ bat = BatIdle
    /\ asc = AscIdle
    /\ tl = TlIdle
    /\ thr = ThrIdle
    /\ fbd = FbdIdle
    /\ orc = OrcIdle
    /\ ntf = NtfIdle
    /\ slk = SlkIdle
    /\ sbt = SbtIdle
    /\ ftc = FtcIdle
    /\ cmd = CmdIdle

\* Time passes between any two steps.
Tick ==
    /\ now < StartMs + MaxTicks * TickMs
    /\ now' = now + TickMs
    /\ UNCHANGED <<store, pc, loc, res, nExch, nWrites, cb, everRefresh, notCred>>

\* Request p calls getHubSpotAccessToken(): redis.get("hubspot:access_token") is issued.
Call(p) ==
    /\ pc[p] = "idle"
    /\ pc' = [pc EXCEPT ![p] = "get_access"]
    /\ UNCHANGED <<store, now, loc, res, nExch, nWrites, cb, everRefresh, notCred>>

\* utils.js:299
GetAccess(p) ==
    /\ pc[p] = "get_access"
    /\ loc' = [loc EXCEPT ![p].access = store.access]
    /\ pc' = [pc EXCEPT ![p] = "get_refresh"]
    /\ UNCHANGED <<store, now, res, nExch, nWrites, cb, everRefresh, notCred>>

\* utils.js:300
GetRefresh(p) ==
    /\ pc[p] = "get_refresh"
    /\ loc' = [loc EXCEPT ![p].refresh = store.refresh]
    /\ pc' = [pc EXCEPT ![p] = "get_expires"]
    /\ UNCHANGED <<store, now, res, nExch, nWrites, cb, everRefresh, notCred>>

\* utils.js:301-304: the third read completes and there is no refresh token.
NotConnected(p) ==
    /\ pc[p] = "get_expires"
    /\ ~HasRefresh(loc[p].refresh)
    /\ loc' = [loc EXCEPT ![p].expiresAtMs = ParseExpiresAt(store.expires)]
    /\ res' = [res EXCEPT ![p] = [NoRes EXCEPT !.kind = "NotConnected", !.at = now]]
    /\ pc' = [pc EXCEPT ![p] = "done"]
    /\ UNCHANGED <<store, now, nExch, nWrites, cb, everRefresh, notCred>>

\* utils.js:301-308: the third read completes and the cached token is returned.
CacheHit(p) ==
    /\ pc[p] = "get_expires"
    /\ HasRefresh(loc[p].refresh)
    /\ LET e == ParseExpiresAt(store.expires)
       IN /\ StillValid(loc[p].access, e, now)
          /\ loc' = [loc EXCEPT ![p].expiresAtMs = e, ![p].now = now]
          /\ res' = [res EXCEPT ![p] =
                        [kind |-> "ok", token |-> loc[p].access, expiry |-> e.v,
                         at |-> now,
                         stored |-> [access |-> store.access, expires |-> store.expires]]]
    /\ pc' = [pc EXCEPT ![p] = "done"]
    /\ UNCHANGED <<store, now, nExch, nWrites, cb, everRefresh, notCred>>

\* utils.js:301-317: the third read completes, the token is not usable and the
\* refresh exchange is posted to the token endpoint.
StartRefresh(p) ==
    /\ pc[p] = "get_expires"
    /\ HasRefresh(loc[p].refresh)
    /\ LET e == ParseExpiresAt(store.expires)
       IN /\ ~StillValid(loc[p].access, e, now)
          /\ loc' = [loc EXCEPT ![p].expiresAtMs = e, ![p].now = now]
    /\ nExch' = [nExch EXCEPT ![p] = @ + 1]
    /\ pc' = [pc EXCEPT ![p] = "exchange"]
    /\ UNCHANGED <<store, now, res, nWrites, cb, everRefresh, notCred>>

\* utils.js:317-322: the token endpoint answers; redis.set(access_token) is issued.
ExchangeOk(p) ==
    /\ pc[p] = "exchange"
    /\ \E data \in TokenResponses :
        /\ loc' = [loc EXCEPT ![p].upstream = "ok",
                              ![p].lifetime = ExpiresInOf(data),
                              ![p].exchangedAt = now,
                              ![p].newAccess = FreshToken(p),
                              ![p].newExpiresAt = ExpiryAfter(now, ExpiresInOf(data))]
    /\ pc' = [pc EXCEPT ![p] = "set_access"]
    /\ UNCHANGED <<store, now, res, nExch, nWrites, cb, everRefresh, notCred>>

\* Mutant of ExchangeFail: a rejected exchange is posted once more before the
\* error is surfaced.
ExchangeFail_Retry(p) ==
    /\ pc[p] = "exchange"
    /\ loc' = [loc EXCEPT ![p].upstream = "rejected"]
    /\ IF nExch[p] < 2
       THEN /\ nExch' = [nExch EXCEPT ![p] = @ + 1]
            /\ UNCHANGED <<pc, res>>
       ELSE /\ res' = [res EXCEPT ![p] = [NoRes EXCEPT !.kind = "RefreshFailed", !.at = now]]
            /\ pc' = [pc EXCEPT ![p] = "done"]
            /\ UNCHANGED nExch
    /\ UNCHANGED <<store, now, nWrites, cb, everRefresh, notCred>>

\* utils.js:290-296, 317: axios.post rejects and the error leaves the function.
ExchangeFail(p) ==
    /\ pc[p] = "exchange"
    /\ loc' = [loc EXCEPT ![p].upstream = "rejected"]
    /\ res' = [res EXCEPT ![p] = [NoRes EXCEPT !.kind = "RefreshFailed", !.at = now]]
    /\ pc' = [pc EXCEPT ![p] = "done"]
    /\ UNCHANGED <<store, now, nExch, nWrites, cb, everRefresh, notCred>>

\* utils.js:322
SetAccess(p) ==
    /\ pc[p] = "set_access"
    /\ store' = [store EXCEPT !.access = loc[p].newAccess]
    /\ nWrites' = [nWrites EXCEPT ![p] = @ + 1]
    /\ pc' = [pc EXCEPT ![p] = "set_expires"]
    /\ UNCHANGED <<now, loc, res, nExch, cb, everRefresh, notCred>>

\* utils.js:323-325
SetExpires(p) ==
    /\ pc[p] = "set_expires"
    /\ store' = [store EXCEPT !.expires = String(loc[p].newExpiresAt)]
    /\ nWrites' = [nWrites EXCEPT ![p] = @ + 1]
    /\ res' = [res EXCEPT ![p] =
                  [kind |-> "ok", token |-> loc[p].newAccess,
                   expiry |-> loc[p].newExpiresAt, at |-> now,
                   stored |-> [access |-> store.access,
                               expires |-> String(loc[p].newExpiresAt)]]]
    /\ pc' = [pc EXCEPT ![p] = "done"]
    /\ UNCHANGED <<now, loc, nExch, cb, everRefresh, notCred>>

\* callback.js:49-61: the authorization code is exchanged; both tokens arrive.
CbExchangeOk ==
    /\ cb.pc = "idle"
    /\ \E data \in TokenResponses :
        /\ cb' = [pc |-> "set_access", access |-> CbToken, refresh |-> RefreshToken,
                  expiresAtMs |-> ExpiryAfter(now, ExpiresInOf(data))]
    /\ UNCHANGED <<store, now, pc, loc, res, nExch, nWrites, everRefresh, notCred>>

\* callback.js:49-57, 67-70: the exchange fails or lacks a token; nothing is written.
CbExchangeFail ==
    /\ cb.pc = "idle"
    /\ cb' = [cb EXCEPT !.pc = "done"]
    /\ UNCHANGED <<store, now, pc, loc, res, nExch, nWrites, everRefresh, notCred>>

\* callback.js:63
CbSetAccess ==
    /\ cb.pc = "set_access"
    /\ store' = [store EXCEPT !.access = cb.access]
    /\ cb' = [cb EXCEPT !.pc = "set_refresh"]
    /\ UNCHANGED <<now, pc, loc, res, nExch, nWrites, everRefresh, notCred>>

\* callback.js:64
CbSetRefresh ==
    /\ cb.pc = "set_refresh"
    /\ store' = [store EXCEPT !.refresh = cb.refresh]
    /\ everRefresh' = TRUE
    /\ cb' = [cb EXCEPT !.pc = "set_expires"]
    /\ UNCHANGED <<now, pc, loc, res, nExch, nWrites, notCred>>

\* callback.js:65  (cb keeps what the callback wrote, for the record)
CbSetExpires ==
    /\ cb.pc = "set_expires"
    /\ store' = [store EXCEPT !.expires = String(cb.expiresAtMs)]
    /\ cb' = [cb EXCEPT !.pc = "done"]
    /\ UNCHANGED <<now, pc, loc, res, nExch, nWrites, everRefresh, notCred>>

\* Requests call one after the other: request p calls when the requests
\* before it have returned.
SeqCall(p) ==
    /\ \A q \in Callers : q < p => pc[q] = "done"
    /\ Call(p)

\* Successive calls of getHubSpotAccessToken(), with the OAuth callback and the
\* clock interleaved.
CredNext ==
    \/ Tick
    \/ CbExchangeOk
    \/ CbExchangeFail
    \/ CbSetAccess
    \/ CbSetRefresh
    \/ CbSetExpires
    \/ \E p \in Callers : SeqCall(p)
    \/ \E p \in Callers : GetAccess(p)
    \/ \E p \in Callers : GetRefresh(p)
    \/ \E p \in Callers : NotConnected(p)
    \/ \E p \in Callers : CacheHit(p)
    \/ \E p \in Callers : StartRefresh(p)
    \/ \E p \in Callers : ExchangeOk(p)
    \/ \E p \in Callers : ExchangeFail(p)
    \/ \E p \in Callers : SetAccess(p)
    \/ \E p \in Callers : SetExpires(p)

CredSpec == Init /\ [][CredNext]_vars

\* Concurrent calls of getHubSpotAccessToken(): every request may call at any
\* time.
RaceNext ==
    \/ Tick
    \/ CbExchangeOk
    \/ CbExchangeFail
    \/ CbSetAccess
    \/ CbSetRefresh
    \/ CbSetExpires
    \/ \E p \in Callers : Call(p)
    \/ \E p \in Callers : GetAccess(p)
    \/ \E p \in Callers : GetRefresh(p)
    \/ \E p \in Callers : NotConnected(p)
    \/ \E p \in Callers : CacheHit(p)
    \/ \E p \in Callers : StartRefresh(p)
    \/ \E p \in Callers : ExchangeOk(p)
    \/ \E p \in Callers : ExchangeFail(p)
    \/ \E p \in Callers : SetAccess(p)
    \/ \E p \in Callers : SetExpires(p)

RaceSpec == Init /\ [][RaceNext]_vars

\* ---------------------------------------------------------------- batchRead
\* The CRM object with id i is the record i; ids are the positive integers.
Min(a, b) == IF a < b THEN a ELSE b

Range(s) == {s[i] : i \in DOMAIN s}

Reverse(s) == [i \in 1..Len(s) |-> s[Len(s) + 1 - i]]

RECURSIVE Without(_, _)
Without(s, drop) ==
    IF Len(s) = 0 THEN <<>>
    ELSE IF s[1] \in drop THEN Without(Tail(s), drop)
    ELSE <<s[1]>> \o Without(Tail(s), drop)

\* The id lists batchRead is called with: n distinct ids.
IdList(n) == [i \in 1..n |-> i]

\* Mutant of IsEmptyIds: the empty-list short circuit is missing.
IsEmptyIds_Never(ids) == FALSE

\* utils.js:382  if (!ids.length) return [];
IsEmptyIds(ids) == Len(ids) = 0

\* utils.js:384  ids.slice(0, 50)
BatchInputs(ids) == SubSeq(ids, 1, Min(Len(ids), BatchCeiling))

\* utils.js:387  resp.data?.results || []
ResultsOf(resp) == IF resp.has_results THEN resp.results ELSE <<>>

\* The ids the upstream may report as not found: none, the first, the last, or
\* the first beyond the batch ceiling.
NotFoundChoices(ids) ==
    {{}} \cup (IF Len(ids) = 0 THEN {}
               ELSE {{ids[1]}, {ids[Len(ids)]}, {ids[Min(Len(ids), BatchCeiling + 1)]}})

\* What the batch endpoint answers to a request for `inputs`: the records it
\* finds, in one of two orders, or a body without a results array.
BatchResponses(inputs, nf) ==
    {[has_results |-> TRUE, results |-> Without(inputs, nf)],
     [has_results |-> TRUE, results |-> Reverse(Without(inputs, nf))],
     [has_results |-> FALSE, results |-> <<>>]}

\* utils.js:381-382: batchRead(hs, objectType, ids, properties) with no ids.
BatchReturnEmpty ==
    /\ bat.pc = "idle"
    /\ \E n \in 0..MaxIds :
        /\ IsEmptyIds(IdList(n))
        /\ bat' = [BatIdle EXCEPT !.pc = "done", !.ids = IdList(n), !.outcome = "ok"]
    /\ UNCHANGED notBat

\* utils.js:381-386: the one batch request is posted.
BatchPost ==
    /\ bat.pc = "idle"
    /\ \E n \in 0..MaxIds :
        /\ ~IsEmptyIds(IdList(n))
        /\ bat' = [BatIdle EXCEPT !.pc = "posted", !.ids = IdList(n),
                                   !.inputs = BatchInputs(IdList(n)), !.requests = 1]
    /\ UNCHANGED notBat

\* utils.js:383-387: the upstream answers and the results are returned.
BatchRespond ==
    /\ bat.pc = "posted"
    /\ \E nf \in NotFoundChoices(bat.ids) :
        \E resp \in BatchResponses(bat.inputs, nf) :
            bat' = [bat EXCEPT !.pc = "done", !.notFound = nf,
                               !.outcome = "ok", !.hasResults = resp.has_results,
                               !.results = ResultsOf(resp)]
    /\ UNCHANGED notBat

\* utils.js:383: hs.post rejects and the error leaves batchRead.
BatchReject ==
    /\ bat.pc = "posted"
    /\ bat' = [bat EXCEPT !.pc = "done", !.outcome = "error"]
    /\ UNCHANGED notBat

BatNext ==
    \/ BatchReturnEmpty
    \/ BatchPost
    \/ BatchRespond
    \/ BatchReject

BatSpec == Init /\ [][BatNext]_vars

\* ------------------------------------------------------ getDealAssociations
\* An association row is [toObjectId |-> x]; x = 0 stands for a row whose
\* toObjectId is missing, the value filter(Boolean) drops.
AssocRows == UNION {[1..n -> [toObjectId : 0..MaxObjId]] : n \in 0..MaxAssocLen}

\* How one relationship lookup settles.
Settlements ==
    {[status |-> "fulfilled", has_results |-> TRUE, results |-> r] : r \in AssocRows}
        \cup {[status |-> "fulfilled", has_results |-> FALSE, results |-> <<>>],
              [status |-> "rejected", has_results |-> FALSE, results |-> <<>>]}

RECURSIVE TruthyIds(_)
TruthyIds(rows) ==
    IF Len(rows) = 0 THEN <<>>
    ELSE IF rows[1].toObjectId # 0 THEN <<rows[1].toObjectId>> \o TruthyIds(Tail(rows))
    ELSE TruthyIds(Tail(rows))

\* utils.js:368-376: (x.value.data?.results || []).map(r => r.toObjectId).filter(Boolean)
IdsOfSettled(x) ==
    IF x.status = "fulfilled"
    THEN TruthyIds(IF x.has_results THEN x.results ELSE <<>>)
    ELSE <<>>

\* Mutant of AllSettled: Promise.all in place of Promise.allSettled, so that
\* one rejected lookup rejects the whole call.
AllSettled_PromiseAll(contacts, companies) ==
    IF contacts.status = "rejected" \/ companies.status = "rejected"
    THEN [outcome |-> "error", contactIds |-> <<>>, companyIds |-> <<>>]
    ELSE [outcome |-> "ok", contactIds |-> IdsOfSettled(contacts),
          companyIds |-> IdsOfSettled(companies)]

\* utils.js:363-378: what getDealAssociations returns once both lookups settled.
AllSettled(contacts, companies) ==
    [outcome |-> "ok", contactIds |-> IdsOfSettled(contacts),
     companyIds |-> IdsOfSettled(companies)]

\* utils.js:362-366: both relationship lookups are issued.
AscCall ==
    /\ asc.pc = "idle"
    /\ asc' = [asc EXCEPT !.pc = "waiting"]
    /\ UNCHANGED notAsc

\* utils.js:364: the contacts lookup settles.
SettleContacts ==
    /\ asc.pc = "waiting"
    /\ asc.contacts.status = "pending"
    /\ \E x \in Settlements : asc' = [asc EXCEPT !.contacts = x]
    /\ UNCHANGED notAsc

\* utils.js:365: the companies lookup settles.
SettleCompanies ==
    /\ asc.pc = "waiting"
    /\ asc.companies.status = "pending"
    /\ \E x \in Settlements : asc' = [asc EXCEPT !.companies = x]
    /\ UNCHANGED notAsc

\* utils.js:363-378: Promise.allSettled resolves and the id lists are returned.
AscReturn ==
    /\ asc.pc = "waiting"
    /\ asc.contacts.status # "pending"
    /\ asc.companies.status # "pending"
    /\ LET r == AllSettled(asc.contacts, asc.companies)
       IN asc' = [asc EXCEPT !.pc = "done", !.outcome = r.outcome,
                             !.contactIds = r.contactIds, !.companyIds = r.companyIds]
    /\ UNCHANGED notAsc

AscNext ==
    \/ AscCall
    \/ SettleContacts
    \/ SettleCompanies
    \/ AscReturn

AscSpec == Init /\ [][AscNext]_vars

\* ------------------------------------------------- hubspot-data.js: texts
\* A JS string is the sequence of its characters, one element each; the
\* element "EMDASH" is the one character U+2014 of the line templates.
Chars_lt == <<"&", "l", "t", ";">>
Chars_gt == <<"&", "g", "t", ";">>
Chars_amp == <<"&", "a", "m", "p", ";">>
Chars_nbsp == <<"&", "n", "b", "s", "p", ";">>

\* The regular expression class \s.
IsSpace(c) == c \in {" ", "\n", "\t"}

\* s.substring(0, n)
Substring0(s, n) == SubSeq(s, 1, Min(n, Len(s)))

\* The least element of a set of indices.
MinOf(S) == CHOOSE x \in S : \A y \in S : x <= y

\* s.replace(/\s+/g, " "): every run of whitespace becomes one space.
RECURSIVE CollapseFrom(_, _)
CollapseFrom(s, i) ==
    LET spaces == {j \in i..Len(s) : IsSpace(s[j])}
    IN  IF spaces = {} THEN SubSeq(s, i, Len(s))
        ELSE LET a == MinOf(spaces)
                 b == MinOf({j \in a..Len(s) : j = Len(s) \/ ~IsSpace(s[j + 1])})
             IN  SubSeq(s, i, a - 1) \o <<" ">> \o CollapseFrom(s, b + 1)

CollapseSpaces(s) == CollapseFrom(s, 1)

\* s.trim()
Trim(s) ==
    LET keep == {i \in 1..Len(s) : ~IsSpace(s[i])}
    IN  IF keep = {} THEN <<>>
        ELSE SubSeq(s, CHOOSE i \in keep : \A j \in keep : i <= j,
                       CHOOSE i \in keep : \A j \in keep : i >= j)

\* pat occurs in s at index i.
OccursAt(s, pat, i) ==
    /\ i + Len(pat) - 1 <= Len(s)
    /\ \A k \in 1..Len(pat) : s[i + k - 1] = pat[k]

\* s.replace(/pat/g, rep) for a literal pat: leftmost matches, not rescanned.
RECURSIVE ReplaceFrom(_, _, _, _)
ReplaceFrom(s, pat, rep, i) ==
    LET found == {j \in i..Len(s) : OccursAt(s, pat, j)}
    IN  IF found = {} THEN SubSeq(s, i, Len(s))
        ELSE LET a == MinOf(found)
             IN  SubSeq(s, i, a - 1) \o rep \o ReplaceFrom(s, pat, rep, a + Len(pat))

ReplaceAll(s, pat, rep) == ReplaceFrom(s, pat, rep, 1)

\* s.replace(/<[^>]*>/g, ""): a "<" and everything up to the next ">" goes;
\* a "<" with no ">" after it stays.
RECURSIVE RemoveTagsFrom(_, _)
RemoveTagsFrom(s, i) ==
    LET opens == {j \in i..Len(s) : s[j] = "<" /\ \E k \in (j + 1)..Len(s) : s[k] = ">"}
    IN  IF opens = {} THEN SubSeq(s, i, Len(s))
        ELSE LET a == MinOf(opens)
                 c == MinOf({k \in (a + 1)..Len(s) : s[k] = ">"})
             IN  SubSeq(s, i, a - 1) \o RemoveTagsFrom(s, c + 1)

\* hubspot-data.js:277-280
stripHtml(html) ==
    IF html = <<>> THEN <<>>
    ELSE ReplaceAll(ReplaceAll(ReplaceAll(ReplaceAll(RemoveTagsFrom(html, 1),
             Chars_nbsp, <<" ">>), Chars_amp, <<"&">>), Chars_lt, <<"<">>), Chars_gt, <<">">>)

\* ------------------------------------------------- hubspot-data.js: dates
\* A HubSpot datetime property is an ISO 8601 string. The model's records
\* carry midnight UTC of a calendar day, so Number(new Date(s)) is a whole
\* number of days times 86400000 ms; the model counts it in days.
Pad(s, n) == [i \in 1..(n - Len(s)) |-> "0"] \o s

IsoString(y, m, d) ==
    Pad(String(y), 4) \o <<"-">> \o Pad(String(m), 2) \o <<"-">> \o Pad(String(d), 2)
        \o <<"T", "0", "0", ":", "0", "0", ":", "0", "0", ".", "0", "0", "0", "Z">>

\* Days from 1970-01-01 to the civil date y-m-d (proleptic Gregorian).
DaysFromCivil(y, m, d) ==
    LET yy == IF m <= 2 THEN y - 1 ELSE y
        era == yy \div 400
        yoe == yy - era * 400
        mp == IF m > 2 THEN m - 3 ELSE m + 9
        doy == (153 * mp + 2) \div 5 + d - 1
        doe == yoe * 365 + yoe \div 4 - yoe \div 100 + doy
    IN  era * 146097 + doe - 719468

\* The civil date of a day count, as the characters YYYY-MM-DD.
CivilFromDays(z) ==
    LET zz == z + 719468
        era == zz \div 146097
        doe == zz - era * 146097
        yoe == (doe - doe \div 1460 + doe \div 36524 - doe \div 146096) \div 365
        doy == doe - (365 * yoe + yoe \div 4 - yoe \div 100)
        mp == (5 * doy + 2) \div 153
        d == doy - (153 * mp + 2) \div 5 + 1
        m == IF mp < 10 THEN mp + 3 ELSE mp - 9
        y == yoe + era * 400 + (IF m <= 2 THEN 1 ELSE 0)
    IN  Pad(String(y), 4) \o <<"-">> \o Pad(String(m), 2) \o <<"-">> \o Pad(String(d), 2)

\* hubspot-data.js:352  Number(new Date(x.timestamp)). An ISO string is read
\* by its fields. The string "0" is no ISO string: Node's Date falls back to
\* its legacy parser, which reads a lone "0" as the year 2000 (January 1st,
\* local midnight; the model's time zone is UTC), where new Date(0), of the
\* number, is 1970-01-01.
DateNumber(ts) ==
    IF ts = <<"0">> THEN DaysFromCivil(2000, 1, 1)
    ELSE DaysFromCivil(DecimalValue(SubSeq(ts, 1, 4)), DecimalValue(SubSeq(ts, 6, 7)),
                       DecimalValue(SubSeq(ts, 9, 10)))

\* hubspot-data.js:287  new Date(ts).toISOString().split("T")[0], or "unknown date"
DateLabel(ts) ==
    IF ts = <<>> THEN <<"u", "n", "k", "n", "o", "w", "n", " ", "d", "a", "t", "e">> ELSE CivilFromDays(DateNumber(ts))

\* hubspot-data.js:297  p.hs_timestamp || "0"
TimestampOrZero(ts) == IF ts = <<>> THEN <<"0">> ELSE ts

\* ------------------------------------------------- hubspot-data.js: lines
\* hubspot-data.js:285-300, one email
EmailItem(p) ==
    LET date == DateLabel(p.hs_timestamp)
        direction == IF p.hs_email_direction = "INCOMING_EMAIL"
                     THEN <<"R", "e", "c", "e", "i", "v", "e", "d">> ELSE <<"S", "e", "n", "t">>
        subject == IF p.hs_email_subject # <<>> THEN p.hs_email_subject ELSE <<"N", "o", " ", "s", "u", "b", "j", "e", "c", "t">>
        from == p.hs_email_sender_email
        to == p.hs_email_to_email
        raw == IF p.hs_email_text # <<>> THEN p.hs_email_text ELSE stripHtml(p.hs_email_html)
        body == Trim(CollapseSpaces(raw))
        snippet == IF body # <<>> THEN <<":", " ">> \o Substring0(body, 200) ELSE <<>>
    IN  [timestamp |-> TimestampOrZero(p.hs_timestamp),
         line |-> <<"-", " ", "E", "M", "A", "I", "L", " ", "(">> \o direction \o <<")", " ", "o", "n", " ">> \o date \o <<" ", "EMDASH", " ", "S", "u", "b", "j", "e", "c", "t", ":", " ", "\"">> \o subject \o <<"\"">>
                  \o (IF from # <<>> THEN <<" ", "f", "r", "o", "m", " ">> \o from ELSE <<>>)
                  \o (IF to # <<>> THEN <<" ", "t", "o", " ">> \o to ELSE <<>>)
                  \o snippet]

\* hubspot-data.js:308-310  `${Math.round(Number(p.hs_call_duration) / 1000 / 60)}min`
DurationLabel(d) ==
    IF d = <<>> THEN <<>>
    ELSE LET n == Number(d)
         IN  (IF n.nan THEN <<"N", "a", "N">> ELSE String((n.v + 30000) \div 60000))
                 \o <<"m", "i", "n">>

\* hubspot-data.js:302-319, one call
CallItem(p) ==
    LET date == DateLabel(p.hs_timestamp)
        title == IF p.hs_call_title # <<>> THEN p.hs_call_title ELSE <<"C", "a", "l", "l">>
        direction == IF p.hs_call_direction = "INBOUND" THEN <<"I", "n", "b", "o", "u", "n", "d">> ELSE <<"O", "u", "t", "b", "o", "u", "n", "d">>
        duration == DurationLabel(p.hs_call_duration)
        disposition == p.hs_call_disposition
        body == Trim(CollapseSpaces(p.hs_call_body))
        snippet == IF body # <<>> THEN <<":", " ">> \o Substring0(body, 200) ELSE <<>>
    IN  [timestamp |-> TimestampOrZero(p.hs_timestamp),
         line |-> <<"-", " ", "C", "A", "L", "L", " ", "(">> \o direction \o <<")", " ", "o", "n", " ">> \o date \o <<" ", "EMDASH", " ">> \o title
                  \o (IF duration # <<>> THEN <<",", " ">> \o duration ELSE <<>>)
                  \o (IF disposition # <<>> THEN <<" ", "[">> \o disposition \o <<"]">> ELSE <<>>)
                  \o snippet]

\* hubspot-data.js:321-334, one meeting
MeetingItem(p) ==
    LET date == DateLabel(p.hs_timestamp)
        title == IF p.hs_meeting_title # <<>> THEN p.hs_meeting_title ELSE <<"M", "e", "e", "t", "i", "n", "g">>
        outcome == p.hs_meeting_outcome
        body == Trim(CollapseSpaces(p.hs_meeting_body))
        snippet == IF body # <<>> THEN <<":", " ">> \o Substring0(stripHtml(body), 200) ELSE <<>>
    IN  [timestamp |-> TimestampOrZero(p.hs_timestamp),
         line |-> <<"-", " ", "M", "E", "E", "T", "I", "N", "G", " ", "o", "n", " ">> \o date \o <<" ", "EMDASH", " ">> \o title
                  \o (IF outcome # <<>> THEN <<" ", "[">> \o outcome \o <<"]">> ELSE <<>>)
                  \o snippet]

\* hubspot-data.js:336-346, one note
NoteItem(p) ==
    LET date == DateLabel(p.hs_createdate)
        body == Trim(CollapseSpaces(stripHtml(p.hs_note_body)))
    IN  [timestamp |-> TimestampOrZero(p.hs_createdate),
         line |-> <<"-", " ", "N", "O", "T", "E", " ", "o", "n", " ">> \o date \o <<":", " ">> \o Substring0(body, 300)]

\* ------------------------------------- hubspot-data.js: formatTimelineForPrompt
\* hubspot-data.js:348  the text returned when there is no item at all
NoActivity == <<"N", "o", " ", "a", "c", "t", "i", "v", "i", "t", "y", " ", "f", "o", "u", "n", "d", " ", "i", "n", " ", "H", "u", "b", "S", "p", "o", "t", ".">>

\* hubspot-data.js:355  items.slice(0, 40)
TimelineLimit == 40
\* The copy of the formatter in src/unnamed/part_002 (line 541) keeps 25.
TimelineLimitCopy == 25
SliceLimits == {TimelineLimit, TimelineLimitCopy}

Kinds == {"emails", "calls", "meetings", "notes"}

\* hubspot-data.js:285  (emails || []): a null or undefined argument is the empty list
OrEmpty(arg) == IF arg.null THEN <<>> ELSE arg.list

MapEmails(ps) == [i \in 1..Len(ps) |-> EmailItem(ps[i])]
MapCalls(ps) == [i \in 1..Len(ps) |-> CallItem(ps[i])]
MapMeetings(ps) == [i \in 1..Len(ps) |-> MeetingItem(ps[i])]
MapNotes(ps) == [i \in 1..Len(ps) |-> NoteItem(ps[i])]

\* hubspot-data.js:283-346  the items in the order they are pushed
PushedItems(emails, calls, meetings, notes) ==
    MapEmails(OrEmpty(emails)) \o MapCalls(OrEmpty(calls))
        \o MapMeetings(OrEmpty(meetings)) \o MapNotes(OrEmpty(notes))

\* hubspot-data.js:352  Number(new Date(x.timestamp)) of every item, in order
RECURSIVE SortKeys(_, _)
SortKeys(items, i) ==
    IF i > Len(items) THEN <<>>
    ELSE <<DateNumber(items[i].timestamp)>> \o SortKeys(items, i + 1)

\* Mutant of Compare: ascending, the oldest first.
Compare_Ascending(na, nb) == na - nb

\* hubspot-data.js:352  the comparator of the sort, on the numbers
\* na = Number(new Date(a.timestamp)) and nb = Number(new Date(b.timestamp))
Compare(na, nb) == nb - na

\* hubspot-data.js:351-353  items.sort(compare): Array.prototype.sort is
\* stable, so items that compare equal keep the order they were pushed in.
\* order holds the indices of the items placed so far.
RECURSIVE SortFrom(_, _, _)
SortFrom(keys, order, i) ==
    IF i > Len(keys) THEN order
    ELSE LET c == Cardinality({j \in 1..Len(order) : Compare(keys[order[j]], keys[i]) <= 0})
         IN  SortFrom(keys, SubSeq(order, 1, c) \o <<i>> \o SubSeq(order, c + 1, Len(order)),
                      i + 1)

SortItems(items) ==
    LET order == SortFrom(SortKeys(items, 1), <<>>, 1)
    IN  [k \in 1..Len(items) |-> items[order[k]]]

\* Mutant of SliceItems: nothing is cut.
SliceItems_KeepAll(items, limit) == items

\* hubspot-data.js:355  items.slice(0, limit)
SliceItems(items, limit) == SubSeq(items, 1, Min(limit, Len(items)))

\* hubspot-data.js:355  .map((i) => i.line).join("\n")
RECURSIVE JoinLines(_, _)
JoinLines(items, i) ==
    IF i > Len(items) THEN <<>>
    ELSE (IF i > 1 THEN <<"\n">> ELSE <<>>) \o items[i].line \o JoinLines(items, i + 1)

\* Mutant of TimelineText: no text for no item.
TimelineText_NoSentinel(sorted, limit) == JoinLines(SliceItems(sorted, limit), 1)

\* hubspot-data.js:348-355  the text returned for the sorted items
TimelineText(sorted, limit) ==
    IF Len(sorted) = 0 THEN NoActivity ELSE JoinLines(SliceItems(sorted, limit), 1)

\* ------------------------------------------- formatTimelineForPrompt: calls
\* The timestamps the model's records carry: none, or midnight of a day.
TsChoices == <<<<>>, IsoString(1999, 12, 31), IsoString(2024, 3, 1)>>

\* A record of each kind with no property but its timestamp.
PlainRecord(k, ts) ==
    CASE k = "emails" ->
           [hs_timestamp |-> ts, hs_email_direction |-> "EMAIL", hs_email_subject |-> <<>>,
            hs_email_sender_email |-> <<>>, hs_email_to_email |-> <<>>,
            hs_email_text |-> <<>>, hs_email_html |-> <<>>]
      [] k = "calls" ->
           [hs_timestamp |-> ts, hs_call_title |-> <<>>, hs_call_direction |-> "OUTBOUND",
            hs_call_duration |-> <<>>, hs_call_disposition |-> <<>>, hs_call_body |-> <<>>]
      [] k = "meetings" ->
           [hs_timestamp |-> ts, hs_meeting_title |-> <<>>, hs_meeting_outcome |-> <<>>,
            hs_meeting_body |-> <<>>]
      [] k = "notes" ->
           [hs_createdate |-> ts, hs_note_body |-> <<>>]

\* The kinds pushed first and last.
BacklogKinds == {"emails", "notes"}

\* BacklogSize records of one kind, their timestamps cycling through TsChoices.
Backlog(k, shift) ==
    [i \in 1..BacklogSize |-> PlainRecord(k, TsChoices[((i + shift) % Len(TsChoices)) + 1])]

\* The caller passes arg and one more record.
Appended(arg, recs) == [null |-> FALSE, list |-> OrEmpty(arg) \o recs]

\* The caller passes [] for every argument it has not got a record for.
PassEmptyLists ==
    /\ tl.pc = "args"
    /\ \A k \in Kinds : tl[k].null
    /\ tl' = [k \in DOMAIN tl |-> IF k \in Kinds THEN [null |-> FALSE, list |-> <<>>] ELSE tl[k]]
    /\ UNCHANGED notTl

\* The deal has a long history of one kind: the first thing the caller collects.
AddBacklog(k, shift) ==
    /\ tl.pc = "args"
    /\ ~tl.backlog
    /\ tl.singles = 0
    /\ \A j \in Kinds : tl[j].null
    /\ tl' = [tl EXCEPT ![k] = Appended(tl[k], Backlog(k, shift)), !.backlog = TRUE]
    /\ UNCHANGED notTl

\* One more record of kind k.
AddRecord(k, ts) ==
    /\ tl.pc = "args"
    /\ tl.singles < MaxSingles
    /\ tl' = [tl EXCEPT ![k] = Appended(tl[k], <<PlainRecord(k, ts)>>),
                        !.singles = tl.singles + 1]
    /\ UNCHANGED notTl

\* hubspot-data.js:282-356  formatTimelineForPrompt(emails, calls, meetings, notes):
\* no await, one step.
Format(limit) ==
    /\ tl.pc = "args"
    /\ LET sorted == SortItems(PushedItems(tl.emails, tl.calls, tl.meetings, tl.notes))
       IN  tl' = [tl EXCEPT !.pc = "done", !.items = sorted, !.limit = limit,
                            !.out = TimelineText(sorted, limit)]
    /\ UNCHANGED notTl

TlNext ==
    \/ PassEmptyLists
    \/ \E k \in BacklogKinds, shift \in 1..Len(TsChoices) : AddBacklog(k, shift)
    \/ \E k \in Kinds, t \in 1..Len(TsChoices) : AddRecord(k, TsChoices[t])
    \/ \E limit \in SliceLimits : Format(limit)

TlSpec == Init /\ [][TlNext]_vars

\* -------------------------------- formatTimelineForPrompt: record contents
\* Texts a property can hold: with tags, with tags written as entities, with
\* runs of whitespace, and one longer than LineBudget.
TextPlain == <<"Q", "3", " ", "r", "e", "n", "e", "w", "a", "l">>
TextTagged == <<"<", "p", ">", "c", "a", "l", "l", " ", "<", "b", ">", "A", "n", "n", "<", "/", "b", ">", "<", "/", "p", ">">>
TextEncoded == <<"&", "l", "t", ";", "b", "&", "g", "t", ";", "A", "n", "n", "&", "l", "t", ";", "/", "b", "&", "g", "t", ";", " ", "&", "a", "m", "p", ";", " ", "B", "o">>
TextSpaced == <<"l", "e", "f", "t", " ", " ", "a", "\n", "\n", " ", "v", "o", "i", "c", "e", "m", "a", "i", "l", " ">>
TextLong == [i \in 1..(LineBudget + 1) |-> "x"]

EmailChoices ==
    [hs_timestamp : {TsChoices[3]},
     hs_email_direction : {"INCOMING_EMAIL", "EMAIL"},
     hs_email_subject : {<<>>, TextPlain, TextLong},
     hs_email_sender_email : {<<>>, <<"a", "n", "n", "@", "a", ".", "i", "o">>},
     hs_email_to_email : {<<>>, <<"b", "o", "@", "b", ".", "i", "o">>},
     hs_email_text : {<<>>, TextTagged},
     hs_email_html : {<<>>, TextEncoded}]

CallChoices ==
    [hs_timestamp : {TsChoices[3]},
     hs_call_title : {<<>>, TextPlain},
     hs_call_direction : {"INBOUND", "OUTBOUND"},
     hs_call_duration : {<<>>, <<"1", "5", "0", "0", "0", "0">>},
     hs_call_disposition : {<<>>, TextLong},
     hs_call_body : {<<>>, TextTagged, TextSpaced}]

MeetingChoices ==
    [hs_timestamp : {TsChoices[3]},
     hs_meeting_title : {<<>>, TextLong},
     hs_meeting_outcome : {<<>>, TextPlain},
     hs_meeting_body : {<<>>, TextTagged, TextEncoded, TextLong}]

NoteChoices ==
    [hs_createdate : {<<>>, TsChoices[3]},
     hs_note_body : {<<>>, TextPlain, TextTagged, TextEncoded, TextSpaced, TextLong}]

RecordChoices(k) ==
    CASE k = "emails" -> EmailChoices
      [] k = "calls" -> CallChoices
      [] k = "meetings" -> MeetingChoices
      [] k = "notes" -> NoteChoices

\* One more record of kind k, with any content.
AddRich(k, p) ==
    /\ tl.pc = "args"
    /\ ~tl.backlog
    /\ tl.singles < MaxRich
    /\ tl' = [tl EXCEPT ![k] = Appended(tl[k], <<p>>), !.singles = tl.singles + 1]
    /\ UNCHANGED notTl

LineNext ==
    \/ \E k \in Kinds : \E p \in RecordChoices(k) : AddRich(k, p)
    \/ \E limit \in SliceLimits : Format(limit)

LineSpec == Init /\ [][LineNext]_vars

\* ------------------------------------------- utils.js: thread context calls
\* Each caller makes one call; every await is a step boundary.
ThrFree(p) == thr.call[p].pc = "idle"

\* Time passes: ClockStep seconds (13 hours), more than any call takes, so
\* no call is in progress meanwhile.
Advance ==
    /\ thr.advances < MaxAdvances
    /\ \A p \in ThrCallers : thr.call[p].pc \in {"idle", "done"}
    /\ thr' = [thr EXCEPT !.clock = @ + ClockStep, !.advances = @ + 1]
    /\ UNCHANGED notThr

\* utils.js:261-267  storeThreadContext(channel_id, thread_ts, messages, dealId), up to the await
StoreCall(p, c, t, messages, dealId) ==
    /\ ThrFree(p)
    /\ thr' = [thr EXCEPT !.call[p] =
                 [NoCall EXCEPT !.fn = "store", !.pc = "set", !.channel = c, !.thread = t,
                                !.key = ThreadKey(c, t), !.messages = messages,
                                !.dealId = dealId,
                                !.data = JsonStringify([messages |-> messages, dealId |-> dealId,
                                                        lastUpdated |-> DateNow(thr.clock)])]]
    /\ UNCHANGED notThr

\* utils.js:268  Redis carries out the SET; storeThreadContext returns
StoreSet(p) ==
    /\ thr.call[p].fn = "store"
    /\ thr.call[p].pc = "set"
    /\ LET c == thr.call[p]
       IN  thr' = [thr EXCEPT
                     !.redis[c.key] = RedisSetEx(c.data, ThreadTtl, thr.clock, <<c.channel, c.thread>>),
                     !.call[p].pc = "done",
                     !.call[p].writes = @ + 1]
    /\ UNCHANGED notThr

\* utils.js:271-273  getThreadContext(channel_id, thread_ts), up to the await
GetCall(p, c, t) ==
    /\ ThrFree(p)
    /\ thr' = [thr EXCEPT !.call[p] =
                 [NoCall EXCEPT !.fn = "get", !.pc = "get", !.channel = c, !.thread = t,
                                !.key = ThreadKey(c, t)]]
    /\ UNCHANGED notThr

\* utils.js:273-275  Redis answers the GET; getThreadContext returns
GetReply(p) ==
    /\ thr.call[p].fn = "get"
    /\ thr.call[p].pc = "get"
    /\ LET data == RedisGet(thr.redis[thr.call[p].key], thr.clock)
       IN  thr' = [thr EXCEPT
                     !.call[p].pc = "done",
                     !.call[p].data = data,
                     !.call[p].found = (data # <<>>),
                     !.call[p].readAt = thr.clock,
                     !.call[p].readFrom = thr.redis[thr.call[p].key],
                     !.call[p].result = IF data = <<>> THEN NullResult
                                        ELSE [null |-> FALSE, context |-> JsonParse(data)]]
    /\ UNCHANGED notThr

\* utils.js:278-279  addMessageToThread(channel_id, thread_ts, message), up to the await
AddCall(p, c, t, message) ==
    /\ ThrFree(p)
    /\ thr' = [thr EXCEPT !.call[p] =
                 [NoCall EXCEPT !.fn = "add", !.pc = "get", !.channel = c, !.thread = t,
                                !.key = ThreadKey(c, t), !.message = message]]
    /\ UNCHANGED notThr

\* Mutant of AddGot: with no context the message starts a new one.
AddGot_CreatesContext(p) ==
    /\ thr.call[p].fn = "add"
    /\ thr.call[p].pc = "get"
    /\ LET data == RedisGet(thr.redis[thr.call[p].key], thr.clock)
           context == PushMessage(IF data = <<>> THEN NoContext ELSE JsonParse(data),
                                  thr.call[p].message, thr.clock)
       IN  thr' = [thr EXCEPT
                     !.call[p].pc = "set",
                     !.call[p].found = (data # <<>>),
                     !.call[p].readAt = thr.clock,
                     !.call[p].readFrom = thr.redis[thr.call[p].key],
                     !.call[p].context = context,
                     !.call[p].data = JsonStringify(context)]
    /\ UNCHANGED notThr

\* utils.js:279-283  Redis answers the GET of the inner getThreadContext: with
\* no context addMessageToThread returns null, else it pushes the message
AddGot(p) ==
    /\ thr.call[p].fn = "add"
    /\ thr.call[p].pc = "get"
    /\ LET data == RedisGet(thr.redis[thr.call[p].key], thr.clock)
           context == PushMessage(JsonParse(data), thr.call[p].message, thr.clock)
       IN  IF data = <<>>
           THEN thr' = [thr EXCEPT
                          !.call[p].pc = "done",
                          !.call[p].readAt = thr.clock,
                          !.call[p].readFrom = thr.redis[thr.call[p].key],
                          !.call[p].result = NullResult]
           ELSE thr' = [thr EXCEPT
                          !.call[p].pc = "set",
                          !.call[p].found = TRUE,
                          !.call[p].readAt = thr.clock,
                          !.call[p].readFrom = thr.redis[thr.call[p].key],
                          !.call[p].context = context,
                          !.call[p].data = JsonStringify(context)]
    /\ UNCHANGED notThr

\* Mutant of AddSet: the message is appended to what the key holds at the
\* time of the write, as an atomic append would do.
AddSet_Merges(p) ==
    /\ thr.call[p].fn = "add"
    /\ thr.call[p].pc = "set"
    /\ LET c == thr.call[p]
           merged == PushMessage(JsonParse(RedisGet(thr.redis[c.key], thr.clock)),
                                 c.message, thr.clock)
       IN  thr' = [thr EXCEPT
                     !.redis[c.key] = RedisSetEx(JsonStringify(merged), ThreadTtl, thr.clock,
                                                 <<c.channel, c.thread>>),
                     !.call[p].pc = "done",
                     !.call[p].writes = @ + 1,
                     !.call[p].result = [null |-> FALSE, context |-> merged]]
    /\ UNCHANGED notThr

\* Mutant of AddSet: the SET keeps the time to live the key had.
AddSet_KeepTtl(p) ==
    /\ thr.call[p].fn = "add"
    /\ thr.call[p].pc = "set"
    /\ LET c == thr.call[p]
       IN  thr' = [thr EXCEPT
                     !.redis[c.key] = [RedisSetEx(c.data, ThreadTtl, thr.clock, <<c.channel, c.thread>>)
                                         EXCEPT !.expireAt = thr.redis[c.key].expireAt],
                     !.call[p].pc = "done",
                     !.call[p].writes = @ + 1,
                     !.call[p].result = [null |-> FALSE, context |-> c.context]]
    /\ UNCHANGED notThr

\* utils.js:284-285  Redis carries out the SET; addMessageToThread returns the context
AddSet(p) ==
    /\ thr.call[p].fn = "add"
    /\ thr.call[p].pc = "set"
    /\ LET c == thr.call[p]
       IN  thr' = [thr EXCEPT
                     !.redis[c.key] = RedisSetEx(c.data, ThreadTtl, thr.clock, <<c.channel, c.thread>>),
                     !.call[p].pc = "done",
                     !.call[p].writes = @ + 1,
                     !.call[p].result = [null |-> FALSE, context |-> c.context]]
    /\ UNCHANGED notThr

\* The calls come one after the other: caller p starts when the callers
\* before it have returned.
InTurn(p) == \A q \in ThrCallers : q < p => thr.call[q].pc = "done"

ThrNext ==
    \/ Advance
    \/ \E p \in ThrCallers, th \in Threads, d \in DealIds :
          InTurn(p) /\ StoreCall(p, th[1], th[2], FirstTurn, d)
    \/ \E p \in ThrCallers : StoreSet(p)
    \/ \E p \in ThrCallers, th \in Threads : InTurn(p) /\ GetCall(p, th[1], th[2])
    \/ \E p \in ThrCallers : GetReply(p)
    \/ \E p \in ThrCallers, th \in Threads, m \in NextMessages :
          InTurn(p) /\ AddCall(p, th[1], th[2], m)
    \/ \E p \in ThrCallers : AddGot(p)
    \/ \E p \in ThrCallers : AddSet(p)

ThrSpec == Init /\ [][ThrNext]_vars

\* ------------------------------- utils.js: thread context, concurrent appends
\* callback.js:501  the message a thread reply appends: each reply its own.
ReplyMessage(p) == IF p = 2 THEN "q2" ELSE IF p = 3 THEN "q3" ELSE "q4"

\* The first caller stored the context of a thread.
FirstStored == thr.call[1].fn = "store" /\ thr.call[1].pc = "done"

\* callback.js:567  thread replies are handled as they arrive, each by its own
\* invocation: the first caller stores a thread's context, the others then
\* append to that thread, at any time.
ThrRaceNext ==
    \/ Advance
    \/ \E th \in Threads, d \in DealIds : StoreCall(1, th[1], th[2], FirstTurn, d)
    \/ StoreSet(1)
    \/ \E p \in ThrCallers \ {1} :
          FirstStored /\ AddCall(p, thr.call[1].channel, thr.call[1].thread, ReplyMessage(p))
    \/ \E p \in ThrCallers : AddGot(p)
    \/ \E p \in ThrCallers : AddSet(p)

ThrRaceSpec == Init /\ [][ThrRaceNext]_vars


\* ------------------------------------- events handler: the turns of a thread
\* part_000:370-373  the two message objects of a turn: the user's question
\* and the bot's answer. Each mention is a turn of its own.
TurnQuestions == <<"q1", "q2", "q3", "q4">>
TurnAnswers == <<"a1", "a2", "a3", "a4">>
TurnMessages(p) == <<TurnQuestions[p], TurnAnswers[p]>>

\* part_000:365-374  mentions in threads are answered one after the other
\* (turn p when the turns before it are over); after its answer is posted a
\* turn calls storeThreadContext with its two messages and the deal id. What
\* the turn read of the cache in phase 3 (part_000:282) went into the prompt
\* only, not into this call.
TurnNext ==
    \/ Advance
    \/ \E p \in ThrCallers, th \in Threads, d \in DealIds :
          InTurn(p) /\ StoreCall(p, th[1], th[2], TurnMessages(p), d)
    \/ \E p \in ThrCallers : StoreSet(p)

TurnSpec == Init /\ [][TurnNext]_vars

\* ------------------------------------------------------ utils.js: findBestDeal
\* The close dates of the candidates of a search result: none (the property
\* is null), or an ISO string.
CloseChoices == <<<<>>, IsoString(2024, 1, 1), IsoString(2024, 3, 15)>>

\* One result of /crm/v3/objects/deals/search: its id and its
\* properties.closedate.
Candidate(id, closedate) == [id |-> id, closedate |-> closedate]

\* utils.js:354-355  a.properties?.closedate ? Number(new Date(closedate)) : 0,
\* counted in days like every date of the model.
CloseNumber(closedate) == IF closedate = <<>> THEN 0 ELSE DateNumber(closedate)

\* Mutant of DealCompare: the earliest close date first.
DealCompare_EarliestFirst(ac, bc) == ac - bc

\* utils.js:356  return bc - ac
DealCompare(ac, bc) == bc - ac

\* utils.js:353-357  results.sort(compare), stable: order holds the indices of
\* the results placed so far.
RECURSIVE SortDealsFrom(_, _, _)
SortDealsFrom(results, order, i) ==
    IF i > Len(results) THEN order
    ELSE LET c == Cardinality({j \in 1..Len(order) :
                      DealCompare(CloseNumber(results[order[j]].closedate),
                                  CloseNumber(results[i].closedate)) <= 0})
         IN  SortDealsFrom(results,
                           SubSeq(order, 1, c) \o <<i>> \o SubSeq(order, c + 1, Len(order)),
                           i + 1)

\* utils.js:350-359  what findBestDeal returns for the results of the response
BestOf(results) ==
    IF Len(results) = 0 THEN NoDeal
    ELSE results[SortDealsFrom(results, <<>>, 1)[1]]

\* The deal search has one more candidate to return.
AddCandidate(closedate) ==
    /\ fbd.pc = "args"
    /\ Len(fbd.results) < MaxCandidates
    /\ fbd' = [fbd EXCEPT !.results = Append(@, Candidate(Len(@) + 1, closedate))]
    /\ UNCHANGED notFbd

\* utils.js:337-349  the body is built and the search request is issued
FindBestDeal ==
    /\ fbd.pc = "args"
    /\ fbd' = [fbd EXCEPT !.pc = "search", !.requests = @ + 1]
    /\ UNCHANGED notFbd

\* utils.js:349-359  the response arrives: resp.data?.results || [] is sorted
\* and its first element returned, or null when it is empty.
SearchReplies(has_results) ==
    /\ fbd.pc = "search"
    /\ LET results == IF has_results THEN fbd.results ELSE <<>>
       IN  fbd' = [fbd EXCEPT !.pc = "done", !.outcome = "returned",
                              !.results = results, !.deal = BestOf(results)]
    /\ UNCHANGED notFbd

\* utils.js:349  hs.post rejects (a timeout, a 4xx, a 5xx): findBestDeal throws
SearchFails ==
    /\ fbd.pc = "search"
    /\ fbd' = [fbd EXCEPT !.pc = "done", !.outcome = "threw"]
    /\ UNCHANGED notFbd

FbdNext ==
    \/ \E i \in 1..Len(CloseChoices) : AddCandidate(CloseChoices[i])
    \/ FindBestDeal
    \/ \E has_results \in BOOLEAN : SearchReplies(has_results)
    \/ SearchFails

FbdSpec == Init /\ [][FbdNext]_vars

\* ------------------------------------------ utils.js: the mention's question
\* auth.test's user_id of the bot.
BotUserId == <<"B", "1">>

\* The texts of the app_mention events: the mention alone, and the mention
\* with a question.
TextMention == <<"<", "@">> \o BotUserId \o <<">">>
TextOwner ==
    TextMention \o
    <<" ", "w", "h", "o", " ", "i", "s", " ", "t", "h", "e", " ", "s", "a",
      "l", "e", "s", " ", "o", "w", "n", "e", "r">>
TextCalls ==
    TextMention \o
    <<" ", "a", "n", "y", " ", "c", "a", "l", "l", "s", " ", "w", "i", "t",
      "h", " ", "t", "h", "e", "m", " ", "r", "e", "c", "e", "n", "t", "l",
      "y", "?">>
TextQuoted ==
    TextMention \o
    <<" ", "\"", "A", "n", "y", " ", "U", "P", "D", "A", "T", "E", "?", "\"">>
EventTexts == {TextMention, TextOwner, TextCalls, TextQuoted}

\* utils.js:239  question.replace(/^["']|["']$/g, ""): a quote that starts the
\* text goes, and a quote that ends it.
StripQuotes(s) ==
    LET a == IF Len(s) > 0 /\ s[1] \in {"\"", "'"} THEN 2 ELSE 1
        b == IF Len(s) > 0 /\ s[Len(s)] \in {"\"", "'"} THEN Len(s) - 1 ELSE Len(s)
    IN  SubSeq(s, a, b)

\* utils.js:234-241
extractQuestionFromMention(text, botUserId) ==
    Trim(StripQuotes(Trim(ReplaceAll(text, <<"<", "@">> \o botUserId \o <<">">>, <<>>))))

\* ------------------------------------- hubspot-data.js: determineRequiredData
UpperCase == <<"A", "B", "C", "D", "E", "F", "G", "H", "I", "J", "K", "L", "M",
               "N", "O", "P", "Q", "R", "S", "T", "U", "V", "W", "X", "Y", "Z">>
LowerCase == <<"a", "b", "c", "d", "e", "f", "g", "h", "i", "j", "k", "l", "m",
               "n", "o", "p", "q", "r", "s", "t", "u", "v", "w", "x", "y", "z">>

\* hubspot-data.js:225  question.toLowerCase()
ToLowerCase(s) ==
    <<>> \o [i \in 1..Len(s) |->
        IF \E k \in 1..26 : UpperCase[k] = s[i]
        THEN LowerCase[CHOOSE k \in 1..26 : UpperCase[k] = s[i]]
        ELSE s[i]]

\* q.includes(word)
Includes(q, word) == \E i \in 1..Len(q) : OccursAt(q, word, i)

\* hubspot-data.js:237-265  the words of activityTriggers, in the order of the source
ActivityWords == <<
    <<"c", "a", "l", "l">>,
    <<"c", "a", "l", "l", "e", "d">>,
    <<"p", "h", "o", "n", "e">>,
    <<"s", "p", "o", "k", "e">>,
    <<"s", "p", "o", "k", "e", "n">>,
    <<"c", "o", "n", "v", "e", "r", "s", "a", "t", "i", "o", "n">>,
    <<"m", "e", "e", "t">>,
    <<"m", "e", "e", "t", "i", "n", "g">>,
    <<"d", "e", "m", "o">>,
    <<"s", "c", "h", "e", "d", "u", "l", "e">>,
    <<"c", "a", "l", "e", "n", "d", "a", "r">>,
    <<"a", "c", "t", "i", "v", "i", "t", "y">>,
    <<"t", "i", "m", "e", "l", "i", "n", "e">>,
    <<"h", "i", "s", "t", "o", "r", "y">>,
    <<"r", "e", "c", "e", "n", "t">>,
    <<"l", "a", "t", "e", "s", "t">>,
    <<"u", "p", "d", "a", "t", "e">>,
    <<"s", "t", "a", "t", "u", "s">>,
    <<"h", "a", "p", "p", "e", "n">>,
    <<"t", "o", "u", "c", "h">>,
    <<"c", "o", "m", "m", "u", "n", "i", "c", "a", "t">>,
    <<"e", "n", "g", "a", "g">>,
    <<"i", "n", "t", "e", "r", "a", "c", "t">>,
    <<"o", "u", "t", "r", "e", "a", "c", "h">>,
    <<"l", "a", "s", "t">>,
    <<"s", "u", "m", "m", "a", "r", "y">>,
    <<"o", "v", "e", "r", "v", "i", "e", "w">>,
    <<"w", "h", "a", "t", "'", "s", " ", "g", "o", "i", "n", "g", " ", "o",
      "n">>,
    <<"w", "h", "a", "t", "s", " ", "g", "o", "i", "n", "g", " ", "o", "n">>
    >>

\* Mutant of determineRequiredData: the triggers set calls only.
determineRequiredData_CallsOnly(question) ==
    LET q == ToLowerCase(question)
        activityTriggers == \E k \in 1..Len(ActivityWords) : Includes(q, ActivityWords[k])
    IN  [emails |-> TRUE, notes |-> TRUE, calls |-> activityTriggers, meetings |-> FALSE,
         contacts |-> TRUE, companies |-> TRUE]

\* hubspot-data.js:224-273  (the second argument, dealData, is not read)
determineRequiredData(question) ==
    LET q == ToLowerCase(question)
        activityTriggers == \E k \in 1..Len(ActivityWords) : Includes(q, ActivityWords[k])
    IN  [emails |-> TRUE, notes |-> TRUE, calls |-> activityTriggers,
         meetings |-> activityTriggers, contacts |-> TRUE, companies |-> TRUE]

\* -------------------------------------------------- utils.js: isPublicChannel
\* The channel object of conversations.info: is_channel and is_private are
\* "true", "false" or "undefined" (the property is not there), name is there
\* or not. A public channel, a private channel, a direct message.
PublicInfo == [is_channel |-> "true", is_private |-> "false", named |-> TRUE]
PrivateInfo == [is_channel |-> "true", is_private |-> "true", named |-> TRUE]
ImInfo == [is_channel |-> "undefined", is_private |-> "undefined", named |-> FALSE]
InfoChoices == {PublicInfo, PrivateInfo, ImInfo}

\* Mutant of isPublicChannel: any channel, private or not.
isPublicChannel_AnyChannel(channelInfo) == channelInfo.is_channel = "true"

\* utils.js:166-168
isPublicChannel(channelInfo) ==
    channelInfo.is_channel = "true" /\ channelInfo.is_private = "false"

\* --------------------------------------- events handler: what an await awaits
\* The Slack helpers of utils.js: each awaits getSlackBotToken() before its
\* request.
SlackCalls == {"getBotUserId", "getSlackChannelInfo", "getSlackChannelName",
               "getChannelHistory", "getThreadHistory", "slackPost"}

\* Calls that never reject: they catch what their requests throw
\* (utils.js:392-399 and 363, hubspot-data.js:8-36, 40-67, 71-97, 101-114).
NeverReject == {"resolveOwnerName", "getDealAssociations", "fetchDealEmails",
                "fetchDealNotes", "fetchDealCalls", "fetchDealMeetings"}

\* Calls whose rejection the orchestrator catches on the spot: part_000:237-240
\* (.catch returns null) and part_000:284-290 (try/catch returns null).
CaughtCalls == {"getChannelHistory", "getThreadHistory"}

\* The positions at which handleAppMention is suspended in its try block.
AwaitingPcs == {"phase1", "greet", "name", "phase2", "nodeal", "phase3", "batch",
                "openai", "post", "store"}

\* The calls whose promises the await at that position waits for
\* (part_000:214, 223, 228, 243, 246, 295, 304, 363, 365, 370).
Awaited(at) ==
    CASE at = "phase1" -> Phase1Calls
      [] at = "name" -> {"getSlackChannelName"}
      [] at \in {"greet", "nodeal", "post"} -> {"slackPost"}
      [] at = "phase2" -> Phase2Calls
      [] at = "phase3" -> Phase3Calls
      [] at = "batch" -> BatchCalls
      [] at = "openai" -> {"callOpenAIForQA"}
      [] at = "store" -> {"storeThreadContext"}
      [] OTHER -> {}

\* A promise of the await has rejected: Promise.all (or the single promise)
\* rejects at once, whatever the others do.
Rejecting(o) ==
    /\ o.pc \in AwaitingPcs
    /\ \E c \in Awaited(o.pc) \ CaughtCalls : o.calls[c] = "rejected"

\* Mutant of AllFulfilled: the first promise to fulfil ends the await.
AllFulfilled_Any(o) ==
    /\ o.pc \in AwaitingPcs
    /\ \E c \in Awaited(o.pc) : o.calls[c] = "fulfilled"
    /\ \A c \in Awaited(o.pc) \ CaughtCalls : o.calls[c] # "rejected"

\* Every promise of the await has fulfilled: a call not made is a promise
\* that was resolved when it was created, a caught rejection is a null.
AllFulfilled(o) ==
    /\ o.pc \in AwaitingPcs
    /\ \A c \in Awaited(o.pc) :
           \/ o.calls[c] \in {"none", "fulfilled"}
           \/ c \in CaughtCalls /\ o.calls[c] = "rejected"

\* handleAppMention can run: what it awaits has settled. (At "catch" it
\* awaits safeErrorPost's request.)
OrcRunnable ==
    \/ Rejecting(orc)
    \/ AllFulfilled(orc)
    \/ /\ orc.pc = "catch"
       /\ \E i \in 1..Len(slk.posts) :
              slk.posts[i].kind = "error" /\ slk.posts[i].status # "sending"

\* No reaction is queued: responses and timers are delivered one at a time,
\* each after the reactions to the one before have run.
Quiet == ~ntf.reaction /\ ~OrcRunnable

\* --------------------------------------------- events handler: safeErrorPost
\* One chat.postMessage request: what it says, who sent it, the channel and
\* the thread_ts of its payload (<<>>: the payload has none), and how it
\* settled. slk.posts holds the requests in the order they were issued.
Post(kind, by, channel, thread_ts) ==
    [kind |-> kind, by |-> by, channel |-> channel, thread_ts |-> thread_ts,
     status |-> "sending"]

\* The request of that kind in posts (each kind is posted at most once).
PostOf(posts, kind) == CHOOSE i \in 1..Len(posts) : posts[i].kind = kind

HasPost(posts, kind) == \E i \in 1..Len(posts) : posts[i].kind = kind

\* How a chat.postMessage request ends: the message is in the channel ("ok"),
\* or it is not ("failed": a timeout, a network error, an error status, an
\* answer that says ok: false).
Outcomes == {"ok", "failed"}

Settled(posts, kind, outcome) == [posts EXCEPT ![PostOf(posts, kind)].status = outcome]

\* part_000:151  getCachedSlackBotToken(): the token the process holds in
\* memory, if it holds one.
getCachedSlackBotToken(s) == s.cachedToken

\* getSlackBotToken returned a token: the process holds it from then on.
CacheToken(s) == [s EXCEPT !.cachedToken = TRUE]

\* Mutant of SafeErrorPost: the request is issued again when it was issued.
SafeErrorPost_Twice(s, kind, by, channel_id, thread_ts) ==
    IF ~getCachedSlackBotToken(s) THEN s
    ELSE [s EXCEPT !.posts = @ \o <<Post(kind, by, channel_id, thread_ts),
                                     Post(kind, by, channel_id, thread_ts)>>]

\* part_000:150-162  safeErrorPost up to its await: with no cached token it
\* logs and returns, else it issues the request.
SafeErrorPost(s, kind, by, channel_id, thread_ts) ==
    IF ~getCachedSlackBotToken(s) THEN s
    ELSE [s EXCEPT !.posts = Append(@, Post(kind, by, channel_id, thread_ts))]

\* ----------------------------------- events handler: withTimeoutNotification
\* The channel_id and thread_ts a call is made with: those of a thread, or
\* of a message in a channel (thread_ts is null, <<>> here).
NtfArgs == Threads \cup {<<a[1], <<>>>> : a \in Threads}

\* part_000:172-195  the call: finished is false, the timer is set, the race
\* is awaited. The work is any promise, pending or settled already (its
\* reaction is queued then); the process is cold (no token cached) or warm
\* (an earlier request of the same process cached one).
NtfCall(warm, channel_id, thread_ts, work) ==
    /\ ntf.pc = "idle"
    /\ orc.pc = "idle"
    /\ ntf' = [ntf EXCEPT !.pc = "racing", !.work = work, !.timer = "armed",
                          !.reaction = (work # "pending"),
                          !.finished = FALSE, !.channel_id = channel_id,
                          !.thread_ts = thread_ts]
    /\ slk' = [slk EXCEPT !.cachedToken = warm]
    /\ UNCHANGED <<orc, notEvt>>

\* The work promise fulfils: its reactions are queued as microtasks.
WorkFulfils ==
    /\ ntf.work = "pending"
    /\ ntf' = [ntf EXCEPT !.work = "fulfilled", !.reaction = TRUE]
    /\ UNCHANGED <<orc, slk, notEvt>>

\* The work promise rejects.
WorkRejects ==
    /\ ntf.work = "pending"
    /\ ntf' = [ntf EXCEPT !.work = "rejected", !.reaction = TRUE]
    /\ UNCHANGED <<orc, slk, notEvt>>

\* part_000:193, 196  handlerPromise.then((r) => { finished = true; return r; })
\* runs; the race, if it is still open, settles with r and the call returns it.
FulfilledReaction ==
    /\ ntf.work = "fulfilled"
    /\ ntf.reaction
    /\ ntf' = [ntf EXCEPT !.reaction = FALSE, !.finished = TRUE,
                          !.pc = IF @ = "racing" THEN "returned" ELSE @]
    /\ UNCHANGED <<orc, slk, notEvt>>

\* part_000:197-200  the rejection passes through then() to the race; if the
\* race is still open the await throws, the catch sets finished and rethrows.
\* If the timer settled the race before, nothing awaits the rejection.
RejectedReaction ==
    /\ ntf.work = "rejected"
    /\ ntf.reaction
    /\ ntf' = IF ntf.pc = "racing"
              THEN [ntf EXCEPT !.reaction = FALSE, !.finished = TRUE, !.pc = "threw"]
              ELSE [ntf EXCEPT !.reaction = FALSE]
    /\ UNCHANGED <<orc, slk, notEvt>>

\* What the ceiling finds handleAppMention doing: awaiting the language
\* model, or something else.
During(o) == IF o.pc = "openai" THEN "synthesis" ELSE "elsewhere"

\* Mutant of TimerElapses: the callback does not look at finished.
TimerElapses_NoCheck ==
    /\ ntf.timer = "armed"
    /\ Quiet
    /\ slk' = SafeErrorPost(slk, "notice", "notifier", ntf.channel_id, ntf.thread_ts)
    /\ ntf' = [ntf EXCEPT !.atCeiling = ntf.work, !.during = During(orc), !.fired = @ + 1,
                          !.timer = IF getCachedSlackBotToken(slk) THEN "posting" ELSE "resolved",
                          !.pc = IF @ = "racing" /\ ~getCachedSlackBotToken(slk) THEN "returned" ELSE @]
    /\ UNCHANGED <<orc, notEvt>>

\* part_000:176-188  VERCEL_TIMEOUT_WARNING_MS after the call the timer
\* callback runs, once: a macrotask, so every reaction queued before it has
\* run. If finished is false it calls safeErrorPost with the progress
\* message and awaits it; then it resolves timeoutPromise, which settles the
\* race if it is still open (the call returns undefined).
TimerElapses ==
    /\ ntf.timer = "armed"
    /\ Quiet
    /\ IF ntf.finished
       THEN /\ ntf' = [ntf EXCEPT !.atCeiling = ntf.work, !.during = During(orc), !.timer = "resolved"]
            /\ slk' = slk
       ELSE /\ slk' = SafeErrorPost(slk, "notice", "notifier", ntf.channel_id, ntf.thread_ts)
            /\ ntf' = [ntf EXCEPT !.atCeiling = ntf.work, !.during = During(orc), !.fired = @ + 1,
                        !.timer = IF getCachedSlackBotToken(slk) THEN "posting" ELSE "resolved",
                        !.pc = IF @ = "racing" /\ ~getCachedSlackBotToken(slk) THEN "returned" ELSE @]
    /\ UNCHANGED <<orc, notEvt>>

\* Mutant of NoticeSettles: handleAppMention is stopped where it is.
NoticeSettles_StopsWork(outcome) ==
    /\ ntf.timer = "posting"
    /\ Quiet
    /\ slk' = [slk EXCEPT !.posts = Settled(@, "notice", outcome)]
    /\ ntf' = [ntf EXCEPT !.timer = "resolved",
                          !.pc = IF @ = "racing" THEN "returned" ELSE @]
    /\ orc' = [orc EXCEPT !.pc = IF @ = "idle" THEN @ ELSE "done"]
    /\ UNCHANGED notEvt

\* part_000:159-165, 187  the progress message's request settles (the answer
\* is not looked at, a failure is logged and swallowed); timeoutPromise
\* resolves.
NoticeSettles(outcome) ==
    /\ ntf.timer = "posting"
    /\ Quiet
    /\ slk' = [slk EXCEPT !.posts = Settled(@, "notice", outcome)]
    /\ ntf' = [ntf EXCEPT !.timer = "resolved",
                          !.pc = IF @ = "racing" THEN "returned" ELSE @]
    /\ UNCHANGED <<orc, notEvt>>

NtfNext ==
    \/ \E warm \in BOOLEAN, a \in NtfArgs, work \in {"pending", "fulfilled", "rejected"} :
           NtfCall(warm, a[1], a[2], work)
    \/ WorkFulfils
    \/ WorkRejects
    \/ FulfilledReaction
    \/ RejectedReaction
    \/ TimerElapses
    \/ \E outcome \in Outcomes : NoticeSettles(outcome)

NtfSpec == Init /\ [][NtfNext]_vars

\* ------------------------------------------ events handler: handleAppMention
\* The app_mention events: in one channel, in a thread of it or not
\* (event.thread_ts || null is <<>> then).
EventChannel == <<"C", "1">>
EventThreads == {<<>>, <<"1", "1", ".", "5">>}

\* part_000:415-427  an app_mention event arrives: handleAppMention(event) runs
\* to its first await (phase 1's three calls are made), then
\* withTimeoutNotification is called with its promise.
Handler(warm, channel_id, thread_ts, text) ==
    /\ orc.pc = "idle"
    /\ ntf.pc = "idle"
    /\ orc' = [orc EXCEPT !.pc = "phase1", !.channel_id = channel_id,
                          !.thread_ts = thread_ts, !.text = text,
                          !.promise = "pending",
                          !.calls = [c \in CallNames |->
                              CASE c \in {"getBotUserId", "getSlackChannelInfo"} -> "token"
                                [] c = "getHubSpotAccessToken" -> "pending"
                                [] OTHER -> "none"]]
    /\ ntf' = [ntf EXCEPT !.pc = "racing", !.work = "pending", !.timer = "armed",
                          !.finished = FALSE, !.channel_id = channel_id,
                          !.thread_ts = thread_ts]
    /\ slk' = [slk EXCEPT !.cachedToken = warm]
    /\ UNCHANGED notEvt

\* The message slackPost is about to send, by the await it is called at
\* (part_000:223, 246, 365): the "no deal" message has no thread_ts.
PipelinePost(o) ==
    CASE o.pc = "greet" -> Post("greeting", "pipeline", o.channel_id, o.thread_ts)
      [] o.pc = "nodeal" -> Post("nodeal", "pipeline", o.channel_id, <<>>)
      [] OTHER -> Post("answer", "pipeline", o.channel_id, o.thread_ts)

\* utils.js:143-145 (and 155, 171, 183, 195, 211)  getSlackBotToken() returns
\* a token to a Slack helper, which issues its request.
TokenResolves(c) ==
    /\ c \in SlackCalls
    /\ orc.calls[c] = "token"
    /\ Quiet
    /\ orc' = [orc EXCEPT !.calls[c] = "pending"]
    /\ slk' = IF c = "slackPost"
              THEN [CacheToken(slk) EXCEPT !.posts = Append(@, PipelinePost(orc))]
              ELSE CacheToken(slk)
    /\ UNCHANGED <<ntf, notEvt>>

\* utils.js:125-136  getSlackBotToken() throws (no token, Redis unreachable, an
\* expired token that could not be refreshed): the helper rejects.
TokenFails(c) ==
    /\ c \in SlackCalls
    /\ orc.calls[c] = "token"
    /\ Quiet
    /\ orc' = [orc EXCEPT !.calls[c] = "rejected"]
    /\ UNCHANGED <<ntf, slk, notEvt>>

\* The calls whose result the orchestrator does not branch on.
PlainCalls == {"getBotUserId", "getHubSpotAccessToken", "getSlackChannelName",
               "getChannelHistory", "getThreadHistory", "resolveOwnerName",
               "fetchDealEmails", "fetchDealNotes", "fetchDealCalls", "fetchDealMeetings",
               "batchRead contacts", "batchRead companies", "callOpenAIForQA"}

\* The response to a call's request arrives and the call fulfils.
Fulfils(c) ==
    /\ c \in PlainCalls
    /\ orc.calls[c] = "pending"
    /\ Quiet
    /\ orc' = [orc EXCEPT !.calls[c] = "fulfilled"]
    /\ UNCHANGED <<ntf, slk, notEvt>>

\* A call's request fails (a timeout, a network error, an error status, an
\* ok: false of Slack) and the call rejects.
Rejects(c) ==
    /\ c \in (CallNames \ NeverReject) \ {"slackPost"}
    /\ orc.calls[c] = "pending"
    /\ Quiet
    /\ orc' = [orc EXCEPT !.calls[c] = "rejected"]
    /\ UNCHANGED <<ntf, slk, notEvt>>

\* utils.js:157-163  conversations.info answers with the channel object
ChannelInfoArrives(info) ==
    /\ orc.calls["getSlackChannelInfo"] = "pending"
    /\ Quiet
    /\ orc' = [orc EXCEPT !.calls["getSlackChannelInfo"] = "fulfilled", !.channelInfo = info]
    /\ UNCHANGED <<ntf, slk, notEvt>>

\* utils.js:349-359  the deal search answers: findBestDeal returns a deal, or
\* null when there is no result.
DealSearchReplies(found) ==
    /\ orc.calls["findBestDeal"] = "pending"
    /\ Quiet
    /\ orc' = [orc EXCEPT !.calls["findBestDeal"] = "fulfilled",
                          !.deal = IF found THEN "match" ELSE "none"]
    /\ UNCHANGED <<ntf, slk, notEvt>>

\* utils.js:363-378  both association lookups have settled: contactIds and
\* companyIds are empty or not.
AssociationsResolve(contactIds, companyIds) ==
    /\ orc.calls["getDealAssociations"] = "pending"
    /\ Quiet
    /\ orc' = [orc EXCEPT !.calls["getDealAssociations"] = "fulfilled",
                          !.contactIds = contactIds, !.companyIds = companyIds]
    /\ UNCHANGED <<ntf, slk, notEvt>>

\* Mutant of ThreadContextRead: the thread's history is asked for, hit or miss.
ThreadContextRead_AlwaysHistory(hit) ==
    /\ orc.calls["getThreadContext"] = "pending"
    /\ Quiet
    /\ orc' = [orc EXCEPT !.calls["getThreadContext"] = "fulfilled",
                          !.cached = IF hit THEN "hit" ELSE "miss",
                          !.calls["getThreadHistory"] = "token"]
    /\ UNCHANGED <<ntf, slk, notEvt>>

\* part_000:282-286  getThreadContext returns the cached context, or null:
\* then the thread's history is asked of Slack.
ThreadContextRead(hit) ==
    /\ orc.calls["getThreadContext"] = "pending"
    /\ Quiet
    /\ orc' = [orc EXCEPT !.calls["getThreadContext"] = "fulfilled",
                          !.cached = IF hit THEN "hit" ELSE "miss",
                          !.calls["getThreadHistory"] = IF hit THEN "none" ELSE "token"]
    /\ UNCHANGED <<ntf, slk, notEvt>>

\* utils.js:201-206  chat.postMessage answers slackPost, or fails: slackPost
\* returns the answer if it says ok, and throws if not.
SlackPostSettles(outcome) ==
    /\ orc.calls["slackPost"] = "pending"
    /\ Quiet
    /\ orc' = [orc EXCEPT !.calls["slackPost"] =
                              IF outcome = "ok" THEN "fulfilled" ELSE "rejected"]
    /\ slk' = [slk EXCEPT !.posts = Settled(@, PipelinePost(orc).kind, outcome)]
    /\ UNCHANGED <<ntf, notEvt>>

\* part_000:159-165  chat.postMessage answers safeErrorPost's request of the
\* catch block, or fails: either way safeErrorPost returns.
ErrorPostSettles(outcome) ==
    /\ orc.pc = "catch"
    /\ HasPost(slk.posts, "error")
    /\ slk.posts[PostOf(slk.posts, "error")].status = "sending"
    /\ Quiet
    /\ slk' = [slk EXCEPT !.posts = Settled(@, "error", outcome)]
    /\ UNCHANGED <<orc, ntf, notEvt>>

\* part_000:365  response.ts: the ts Slack gives the answer's message.
ResponseTs == <<"1", "2", ".", "0">>

\* part_000:368  const responseThreadTs = thread_ts || response.ts
ResponseThreadTs(o) == IF o.thread_ts # <<>> THEN o.thread_ts ELSE ResponseTs

\* part_000:257, 373  dealId = deal.id, the deal the search resolved
ResolvedDealId == "D1"

\* What storeThreadContext leaves under key (utils.js:262-268): the turn's
\* question and answer (the two message objects of part_000:371-372, FirstTurn
\* here) and the deal id.
StoredTurn(redis, key, o, clock) ==
    (key :> RedisSetEx(JsonStringify([messages |-> FirstTurn, dealId |-> ResolvedDealId,
                                      lastUpdated |-> DateNow(clock)]),
                       ThreadTtl, clock, <<o.channel_id, ResponseThreadTs(o)>>)) @@ redis

\* Mutant of ContextStored: the context is stored under the mention's
\* thread_ts, also when the mention was not in a thread.
ContextStored_MentionThread ==
    /\ orc.calls["storeThreadContext"] = "pending"
    /\ Quiet
    /\ orc' = [orc EXCEPT !.calls["storeThreadContext"] = "fulfilled"]
    /\ thr' = [thr EXCEPT !.redis =
                  StoredTurn(@, ThreadKey(orc.channel_id, orc.thread_ts), orc, thr.clock)]
    /\ UNCHANGED <<ntf, slk, credVars, bat, asc, tl, fbd, restVars>>

\* part_000:370-373, utils.js:261-269  Redis carries out the SET of
\* storeThreadContext(channel_id, responseThreadTs, [question, answer], dealId).
ContextStored ==
    /\ orc.calls["storeThreadContext"] = "pending"
    /\ Quiet
    /\ orc' = [orc EXCEPT !.calls["storeThreadContext"] = "fulfilled"]
    /\ thr' = [thr EXCEPT !.redis =
                  StoredTurn(@, ThreadKey(orc.channel_id, ResponseThreadTs(orc)), orc, thr.clock)]
    /\ UNCHANGED <<ntf, slk, credVars, bat, asc, tl, fbd, restVars>>

\* handleAppMention returns: its promise fulfils, which queues the reaction
\* of withTimeoutNotification.
OrcReturned(o) == [o EXCEPT !.pc = "done", !.promise = "fulfilled"]
WorkDone(n) == [n EXCEPT !.work = "fulfilled", !.reaction = TRUE]

\* part_000:232-243  phase 2: the deal search, and the channel history if the
\* channel is public.
StartPhase2(o) ==
    [o EXCEPT !.pc = "phase2",
              !.calls["findBestDeal"] = "pending",
              !.calls["getChannelHistory"] = IF o.isPublic THEN "token" ELSE "none"]

\* part_000:214-230  phase 1 is over: the question is extracted; with no
\* question the greeting is posted; with no name in the channel object the
\* name is asked of Slack; else phase 2 starts.
Phase1Resumes ==
    /\ orc.pc = "phase1"
    /\ AllFulfilled(orc)
    /\ LET question == extractQuestionFromMention(orc.text, BotUserId)
           o == [orc EXCEPT !.question = question,
                            !.isPublic = isPublicChannel(orc.channelInfo)]
       IN  orc' = IF question = <<>>
                  THEN [o EXCEPT !.pc = "greet", !.calls["slackPost"] = "token"]
                  ELSE IF orc.channelInfo.named THEN StartPhase2(o)
                  ELSE [o EXCEPT !.pc = "name", !.calls["getSlackChannelName"] = "token"]
    /\ UNCHANGED <<ntf, slk, notEvt>>

\* part_000:228-243  the channel's name has come: phase 2 starts.
NameResumes ==
    /\ orc.pc = "name"
    /\ AllFulfilled(orc)
    /\ orc' = StartPhase2(orc)
    /\ UNCHANGED <<ntf, slk, notEvt>>

\* part_000:270-293  requiredData is computed and phase 3 starts: owner,
\* associations, emails and notes always (requiredData.emails and .notes are
\* always true), calls and meetings if required, the thread context if the
\* mention is in a thread.
StartPhase3(o) ==
    LET requiredData == determineRequiredData(o.question)
    IN  [o EXCEPT !.pc = "phase3", !.requiredData = requiredData,
            !.calls = [c \in CallNames |->
                CASE c \in {"resolveOwnerName", "getDealAssociations"} -> "pending"
                  [] c = "fetchDealEmails" -> IF requiredData.emails THEN "pending" ELSE "none"
                  [] c = "fetchDealNotes" -> IF requiredData.notes THEN "pending" ELSE "none"
                  [] c = "fetchDealCalls" -> IF requiredData.calls THEN "pending" ELSE "none"
                  [] c = "fetchDealMeetings" ->
                         IF requiredData.meetings THEN "pending" ELSE "none"
                  [] c = "getThreadContext" -> IF o.thread_ts # <<>> THEN "pending" ELSE "none"
                  [] OTHER -> o.calls[c]]]

\* Mutant of AfterPhase2: phase 3 starts, deal or no deal.
AfterPhase2_NoCheck(o) == StartPhase3(o)

\* part_000:245-248  with no deal the "no deal" message is posted, and
\* handleAppMention will return; else phase 3 starts.
AfterPhase2(o) ==
    IF o.deal = "none"
    THEN [o EXCEPT !.pc = "nodeal", !.calls["slackPost"] = "token"]
    ELSE StartPhase3(o)

\* part_000:243  phase 2 is over: the deal search has answered, the channel
\* history has come, or failed, or was not asked for.
Phase2Resumes ==
    /\ orc.pc = "phase2"
    /\ AllFulfilled(orc)
    /\ orc' = AfterPhase2(orc)
    /\ UNCHANGED <<ntf, slk, notEvt>>

\* part_000:295-307  phase 3 is over: the contacts and the companies are read,
\* a request for each list that is not empty (utils.js:382).
Phase3Resumes ==
    /\ orc.pc = "phase3"
    /\ AllFulfilled(orc)
    /\ orc' = [orc EXCEPT !.pc = "batch",
                  !.calls["batchRead contacts"] = IF orc.contactIds THEN "pending" ELSE "none",
                  !.calls["batchRead companies"] = IF orc.companyIds THEN "pending" ELSE "none"]
    /\ UNCHANGED <<ntf, slk, notEvt>>

\* part_000:304-363  the batch reads are over: the prompt is built and the
\* language model is called.
BatchResumes ==
    /\ orc.pc = "batch"
    /\ AllFulfilled(orc)
    /\ orc' = [orc EXCEPT !.pc = "openai", !.calls["callOpenAIForQA"] = "pending"]
    /\ UNCHANGED <<ntf, slk, notEvt>>

\* part_000:363-365  the answer has come: it is posted.
OpenAIResumes ==
    /\ orc.pc = "openai"
    /\ AllFulfilled(orc)
    /\ orc' = [orc EXCEPT !.pc = "post", !.calls["slackPost"] = "token"]
    /\ UNCHANGED <<ntf, slk, notEvt>>

\* part_000:365-374  the answer is posted (response.ts is the message's ts):
\* the turn is stored as the thread's context.
PostResumes ==
    /\ orc.pc = "post"
    /\ AllFulfilled(orc)
    /\ orc' = [orc EXCEPT !.pc = "store", !.calls["storeThreadContext"] = "pending"]
    /\ UNCHANGED <<ntf, slk, notEvt>>

\* part_000:224, 247, 374  the greeting or the "no deal" message is posted, or
\* the context is stored: handleAppMention returns.
Returns ==
    /\ orc.pc \in {"greet", "nodeal", "store"}
    /\ AllFulfilled(orc)
    /\ orc' = OrcReturned(orc)
    /\ ntf' = WorkDone(ntf)
    /\ UNCHANGED <<slk, notEvt>>

\* part_000:375-377  an awaited promise has rejected: the catch block logs the
\* error and calls safeErrorPost, which returns at once when no token is
\* cached (handleAppMention returns then), else issues its request.
Throws ==
    /\ Rejecting(orc)
    /\ slk' = SafeErrorPost(slk, "error", "pipeline", orc.channel_id, orc.thread_ts)
    /\ IF getCachedSlackBotToken(slk)
       THEN /\ orc' = [orc EXCEPT !.pc = "catch", !.threw = TRUE]
            /\ ntf' = ntf
       ELSE /\ orc' = [OrcReturned(orc) EXCEPT !.threw = TRUE]
            /\ ntf' = WorkDone(ntf)
    /\ UNCHANGED notEvt

\* Mutant of CatchResumes: a failed request is thrown on.
CatchResumes_Rethrows ==
    /\ orc.pc = "catch"
    /\ slk.posts[PostOf(slk.posts, "error")].status # "sending"
    /\ IF slk.posts[PostOf(slk.posts, "error")].status = "failed"
       THEN /\ orc' = [orc EXCEPT !.pc = "done", !.promise = "rejected"]
            /\ ntf' = [ntf EXCEPT !.work = "rejected", !.reaction = TRUE]
       ELSE /\ orc' = OrcReturned(orc)
            /\ ntf' = WorkDone(ntf)
    /\ UNCHANGED <<slk, notEvt>>

\* part_000:163-165, 377-379  safeErrorPost's request has settled (a failure is
\* logged, not thrown): handleAppMention returns.
CatchResumes ==
    /\ orc.pc = "catch"
    /\ slk.posts[PostOf(slk.posts, "error")].status # "sending"
    /\ orc' = OrcReturned(orc)
    /\ ntf' = WorkDone(ntf)
    /\ UNCHANGED <<slk, notEvt>>

OrcNext ==
    \/ \E warm \in BOOLEAN, thread_ts \in EventThreads, text \in EventTexts :
           Handler(warm, EventChannel, thread_ts, text)
    \/ \E c \in SlackCalls : TokenResolves(c) \/ TokenFails(c)
    \/ \E c \in CallNames : Fulfils(c) \/ Rejects(c)
    \/ \E info \in InfoChoices : ChannelInfoArrives(info)
    \/ \E found \in BOOLEAN : DealSearchReplies(found)
    \/ \E contactIds, companyIds \in BOOLEAN : AssociationsResolve(contactIds, companyIds)
    \/ \E hit \in BOOLEAN : ThreadContextRead(hit)
    \/ ContextStored
    \/ \E outcome \in Outcomes :
           SlackPostSettles(outcome) \/ ErrorPostSettles(outcome) \/ NoticeSettles(outcome)
    \/ Phase1Resumes
    \/ NameResumes
    \/ Phase2Resumes
    \/ Phase3Resumes
    \/ BatchResumes
    \/ OpenAIResumes
    \/ PostResumes
    \/ Returns
    \/ Throws
    \/ CatchResumes
    \/ FulfilledReaction
    \/ TimerElapses

OrcSpec == Init /\ [][OrcNext]_vars

\* --------------------------------------------- utils.js: getSlackBotToken
\* utils.js:46  const SLACK_REFRESH_BUFFER_MS = 60 * 60 * 1000
SLACK_REFRESH_BUFFER_MS == 60 * 60 * 1000
\* utils.js:111, slack/oauth/callback.js:56  expires_in ?? 43200
DefaultExpiresIn == 43200

\* Time that passes between two steps: eleven hours at a time, so that a
\* token of twelve hours comes within the buffer of its expiry.
SlackElapseMs == 11 * SLACK_REFRESH_BUFFER_MS

notSbt == <<credVars, bat, asc, tl, thr, fbd, evtVars, ftc, cmd>>

\* What oauth.v2.access answers: tokens that rotate (a refresh token and a
\* lifetime come with the access token), a token that does not, or a refusal.
SlackResponses(access, refresh) ==
    { [ok |-> TRUE, access_token |-> access, refresh_token |-> refresh,
       expires_in |-> DefaultExpiresIn],
      [ok |-> TRUE, access_token |-> access],
      [ok |-> FALSE] }

\* The request itself may fail (network error, timeout, non-2xx status).
Rejected == [rejected |-> TRUE]

\* data.field of a response body: undefined reads as Nil.
Field(data, name) == IF name \in DOMAIN data THEN data[name] ELSE Nil

\* Number(data.expires_in ?? 43200)
ExpiresIn(data) ==
    IF "expires_in" \in DOMAIN data THEN data.expires_in ELSE DefaultExpiresIn

EnvTokens == {Nil, "xoxb-env"}

SbtElapse ==
    /\ sbt.elapses < MaxSlackElapses
    /\ sbt' = [sbt EXCEPT !.clock = @ + SlackElapseMs, !.elapses = @ + 1]
    /\ UNCHANGED notSbt

\* Redis becomes unreachable, or reachable again.
RedisDown ==
    /\ sbt.up
    /\ sbt' = [sbt EXCEPT !.up = FALSE]
    /\ UNCHANGED notSbt

RedisUp ==
    /\ ~sbt.up
    /\ sbt' = [sbt EXCEPT !.up = TRUE]
    /\ UNCHANGED notSbt

\* ---- slack/oauth/callback.js: the handler, from the exchange on
\* callback.js:52-57, and 65-69 when the exchange fails
SlackCbExchanged(resp) ==
    /\ sbt.callback.pc = "idle"
    /\ sbt' = IF resp = Rejected \/ ~resp.ok
              THEN [sbt EXCEPT !.callback.pc = "done", !.callback.status = 500]
              ELSE [sbt EXCEPT !.callback.pc = "setAccess",
                               !.callback.data =
                                   [access_token |-> resp.access_token,
                                    refresh_token |-> Field(resp, "refresh_token")],
                               !.callback.expiresAtMs = sbt.clock + ExpiresIn(resp) * 1000]
    /\ UNCHANGED notSbt

\* callback.js:60
SlackCbSetAccess ==
    /\ sbt.callback.pc = "setAccess"
    /\ sbt' = IF sbt.up
              THEN [sbt EXCEPT !.redis.access = sbt.callback.data.access_token,
                               !.callback.pc = "setExpires"]
              ELSE [sbt EXCEPT !.callback.pc = "done", !.callback.status = 500]
    /\ UNCHANGED notSbt

\* callback.js:61-62
SlackCbSetExpires ==
    /\ sbt.callback.pc = "setExpires"
    /\ sbt' = IF sbt.up
              THEN [sbt EXCEPT !.redis.expires = String(sbt.callback.expiresAtMs),
                               !.callback.pc =
                                   IF sbt.callback.data.refresh_token # Nil
                                   THEN "setRefresh" ELSE "done",
                               !.callback.status =
                                   IF sbt.callback.data.refresh_token # Nil THEN @ ELSE 200]
              ELSE [sbt EXCEPT !.callback.pc = "done", !.callback.status = 500]
    /\ UNCHANGED notSbt

\* callback.js:63, 72
SlackCbSetRefresh ==
    /\ sbt.callback.pc = "setRefresh"
    /\ sbt' = IF sbt.up
              THEN [sbt EXCEPT !.redis.refresh = sbt.callback.data.refresh_token,
                               !.callback.pc = "done", !.callback.status = 200]
              ELSE [sbt EXCEPT !.callback.pc = "done", !.callback.status = 500]
    /\ UNCHANGED notSbt

\* ---- utils.js: getSlackBotToken
SbtReturn(c, token) == [c EXCEPT !.pc = "done", !.outcome = "returned", !.token = token]

SbtThrow(c, error) == [c EXCEPT !.pc = "done", !.outcome = "threw", !.error = error]

\* utils.js:71, 134-137  a read that gets no answer within REDIS_READ_TIMEOUT_MS
\* rejects, and the outer catch rethrows
ReadTimedOut(c) == SbtThrow([c EXCEPT !.readFailed = TRUE], "Redis read timeout")

\* utils.js:124-133
SbtFinal(c) ==
    LET isExpired == /\ TruthyNumber(c.expiresAtMs)
                     /\ c.now >= c.expiresAtMs.v - SLACK_REFRESH_BUFFER_MS
    IN  IF c.access = Nil THEN SbtThrow(c, "No Slack bot token")
        ELSE IF isExpired THEN SbtThrow(c, "Slack token expired and refresh failed")
        ELSE SbtReturn(c, c.access)

\* utils.js:59-67
SbtCall(envToken, client) ==
    /\ sbt.call.pc = "idle"
    /\ sbt' = [sbt EXCEPT !.call =
                  IF envToken # Nil
                  THEN SbtReturn([@ EXCEPT !.envToken = envToken, !.client = client,
                                           !.upAtCall = sbt.up], envToken)
                  ELSE [@ EXCEPT !.pc = "getAccess", !.envToken = envToken,
                                 !.client = client, !.upAtCall = sbt.up]]
    /\ UNCHANGED notSbt

SbtGotAccess_NullOnTimeout ==
    /\ sbt.call.pc = "getAccess"
    /\ sbt' = [sbt EXCEPT !.call =
                  IF sbt.up
                  THEN [@ EXCEPT !.pc = "getRefresh", !.access = sbt.redis.access]
                  ELSE [@ EXCEPT !.pc = "getRefresh", !.access = Nil, !.readFailed = TRUE]]
    /\ UNCHANGED notSbt

\* utils.js:68-72
SbtGotAccess ==
    /\ sbt.call.pc = "getAccess"
    /\ sbt' = [sbt EXCEPT !.call =
                  IF sbt.up
                  THEN [@ EXCEPT !.pc = "getRefresh", !.access = sbt.redis.access]
                  ELSE ReadTimedOut(@)]
    /\ UNCHANGED notSbt

\* utils.js:73-77
SbtGotRefresh ==
    /\ sbt.call.pc = "getRefresh"
    /\ sbt' = [sbt EXCEPT !.call =
                  IF sbt.up
                  THEN [@ EXCEPT !.pc = "getExpires", !.refresh = sbt.redis.refresh]
                  ELSE ReadTimedOut(@)]
    /\ UNCHANGED notSbt

\* utils.js:83-93  after the third read: the cached token, a refresh, or the end
SbtChecked(c) ==
    IF /\ c.access # Nil
       /\ TruthyNumber(c.expiresAtMs)
       /\ c.now < c.expiresAtMs.v - SLACK_REFRESH_BUFFER_MS
    THEN SbtReturn(c, c.access)
    ELSE IF c.refresh # Nil /\ c.client THEN [c EXCEPT !.pc = "refreshing"]
    ELSE SbtFinal(c)

\* utils.js:78-93
SbtGotExpires ==
    /\ sbt.call.pc = "getExpires"
    /\ sbt' = [sbt EXCEPT !.call =
                  IF sbt.up
                  THEN SbtChecked([@ EXCEPT
                           !.expiresAtMs = ParseExpiresAt(sbt.redis.expires),
                           !.now = sbt.clock])
                  ELSE ReadTimedOut(@)]
    /\ UNCHANGED notSbt

\* utils.js:95-112, 118-120
SbtRefreshed(resp) ==
    /\ sbt.call.pc = "refreshing"
    /\ sbt' = [sbt EXCEPT !.call =
                  IF resp = Rejected \/ ~resp.ok
                  THEN SbtFinal(@)
                  ELSE [@ EXCEPT !.pc = "setAccess",
                                 !.newAccess = resp.access_token,
                                 !.newRefresh = Field(resp, "refresh_token"),
                                 !.newExpiresAt = sbt.clock + ExpiresIn(resp) * 1000]]
    /\ UNCHANGED notSbt

\* utils.js:113, 118-120  a failing write is caught with the refresh's errors
SbtSetAccess ==
    /\ sbt.call.pc = "setAccess"
    /\ sbt' = IF sbt.up
              THEN [sbt EXCEPT !.redis.access = sbt.call.newAccess,
                               !.call.pc = "setExpires"]
              ELSE [sbt EXCEPT !.call = SbtFinal(@)]
    /\ UNCHANGED notSbt

\* utils.js:114-116
SbtSetExpires ==
    /\ sbt.call.pc = "setExpires"
    /\ sbt' = IF sbt.up
              THEN [sbt EXCEPT !.redis.expires = String(sbt.call.newExpiresAt),
                               !.call = IF @.newRefresh # Nil
                                        THEN [@ EXCEPT !.pc = "setRefresh"]
                                        ELSE SbtReturn(@, @.newAccess)]
              ELSE [sbt EXCEPT !.call = SbtFinal(@)]
    /\ UNCHANGED notSbt

\* utils.js:115-116
SbtSetRefresh ==
    /\ sbt.call.pc = "setRefresh"
    /\ sbt' = IF sbt.up
              THEN [sbt EXCEPT !.redis.refresh = sbt.call.newRefresh,
                               !.call = SbtReturn(@, @.newAccess)]
              ELSE [sbt EXCEPT !.call = SbtFinal(@)]
    /\ UNCHANGED notSbt

SbtNext ==
    \/ SbtElapse
    \/ RedisDown
    \/ RedisUp
    \/ \E resp \in SlackResponses("xoxb-install", "xoxe-install") \cup {Rejected} :
           SlackCbExchanged(resp)
    \/ SlackCbSetAccess
    \/ SlackCbSetExpires
    \/ SlackCbSetRefresh
    \/ \E envToken \in EnvTokens, client \in BOOLEAN : SbtCall(envToken, client)
    \/ SbtGotAccess
    \/ SbtGotRefresh
    \/ SbtGotExpires
    \/ \E resp \in SlackResponses("xoxb-refreshed", "xoxe-refreshed") \cup {Rejected} :
           SbtRefreshed(resp)
    \/ SbtSetAccess
    \/ SbtSetExpires
    \/ SbtSetRefresh

SbtSpec == Init /\ [][SbtNext]_vars

\* ------------------------------------- hubspot-data.js: the per-kind fetches
notFtc == <<credVars, bat, asc, tl, thr, fbd, evtVars, sbt, cmd>>

\* What GET /crm/v4/objects/deals/{id}/associations/{kind} settles with: rows
\* (a row without an id has toObjectId 0), a body without results, a body
\* whose results is no array (.map is not a function), or a rejection.
FetchRows == {<<>>, <<[toObjectId |-> 1]>>, <<[toObjectId |-> 0], [toObjectId |-> 1]>>,
              <<[toObjectId |-> 1], [toObjectId |-> 2]>>}

FetchLookups ==
    {[status |-> "fulfilled", shape |-> "rows", results |-> r] : r \in FetchRows}
        \cup {[status |-> "fulfilled", shape |-> "none", results |-> <<>>],
              [status |-> "fulfilled", shape |-> "object", results |-> <<>>],
              [status |-> "rejected", shape |-> "none", results |-> <<>>]}

\* Array.prototype.sort with the comparator key(b) - key(a): descending and
\* stable. The elements are [key, v] pairs.
RECURSIVE InsertDesc(_, _)
InsertDesc(x, s) ==
    IF Len(s) = 0 THEN <<x>>
    ELSE IF s[1].key >= x.key THEN <<s[1]>> \o InsertDesc(x, Tail(s))
    ELSE <<x>> \o s

RECURSIVE SortDesc(_)
SortDesc(s) ==
    IF Len(s) = 0 THEN <<>>
    ELSE InsertDesc(s[Len(s)], SortDesc(SubSeq(s, 1, Len(s) - 1)))

RECURSIVE Values(_)
Values(s) == IF Len(s) = 0 THEN <<>> ELSE <<s[1].v>> \o Values(Tail(s))

RECURSIVE KeyedIds(_)
KeyedIds(ids) ==
    IF Len(ids) = 0 THEN <<>>
    ELSE <<[key |-> ids[1], v |-> ids[1]]>> \o KeyedIds(Tail(ids))

RECURSIVE KeyedRecords(_)
KeyedRecords(rs) ==
    IF Len(rs) = 0 THEN <<>>
    ELSE <<[key |-> rs[1].hs_timestamp, v |-> rs[1]]>> \o KeyedRecords(Tail(rs))

\* hubspot-data.js:10-14  .map(r => r.toObjectId).filter(Boolean)
\*                        .sort((a, b) => Number(b) - Number(a)).slice(0, 100)
FetchIds(rows) ==
    LET sorted == Values(SortDesc(KeyedIds(TruthyIds(rows))))
    IN  SubSeq(sorted, 1, IF Len(sorted) < FetchCeiling THEN Len(sorted) ELSE FetchCeiling)

\* hubspot-data.js:28-32  sort by hs_timestamp (hs_createdate for notes),
\* the newest first; a record without one counts as 0
SortNewestFirst(rs) == Values(SortDesc(KeyedRecords(rs)))

\* What batchRead resolves to for these ids: the records in the order of the
\* ids or the reverse, dated or not; or nothing (utils.js:387).
RECURSIVE RecordsOf(_, _)
RecordsOf(ids, dated) ==
    IF Len(ids) = 0 THEN <<>>
    ELSE <<[id |-> ids[1], hs_timestamp |-> IF dated THEN ids[1] ELSE 0]>>
             \o RecordsOf(Tail(ids), dated)

FetchReads(ids) ==
    {[status |-> "fulfilled", results |-> RecordsOf(ids, TRUE)],
     [status |-> "fulfilled", results |-> Reverse(RecordsOf(ids, FALSE))],
     [status |-> "fulfilled", results |-> <<>>],
     [status |-> "rejected", results |-> <<>>]}

AllFetchReads == UNION {FetchReads(FetchIds(rows)) : rows \in FetchRows}

\* return [...] of the async function: its promise fulfils
FetchReturns(f, value) == [f EXCEPT !.pc = "done", !.outcome = "fulfilled", !.value = value]

\* hubspot-data.js:33-36  catch (err) { console.error(...); return []; }
FetchCatches(f) == FetchReturns([f EXCEPT !.failed = TRUE], <<>>)

\* part_000:270-297  phase 3 starts the fetches the question requires; the
\* others are Promise.resolve([])
FetchPhase3(required) ==
    /\ ftc.pipe = "idle"
    /\ ftc' = [ftc EXCEPT !.pipe = "phase3",
                          !.kinds = [k \in ActivityKinds |->
                                        IF k \in required
                                        THEN [FetchIdle EXCEPT !.pc = "lookup"]
                                        ELSE FetchReturns(FetchIdle, <<>>)]]
    /\ UNCHANGED notFtc

FetchLookupSettles_Rethrows(k, resp) ==
    /\ ftc.kinds[k].pc = "lookup"
    /\ ftc' = [ftc EXCEPT !.kinds[k] =
                  IF resp.status = "rejected" \/ resp.shape = "object"
                  THEN [@ EXCEPT !.pc = "done", !.outcome = "rejected", !.failed = TRUE]
                  ELSE IF FetchIds(resp.results) = <<>> THEN FetchReturns(@, <<>>)
                  ELSE [@ EXCEPT !.pc = "read", !.ids = FetchIds(resp.results)]]
    /\ UNCHANGED notFtc

\* hubspot-data.js:9-16, 33-36 (emails); 41-48, 72-79, 102-105 (the others)
FetchLookupSettles(k, resp) ==
    /\ ftc.kinds[k].pc = "lookup"
    /\ ftc' = [ftc EXCEPT !.kinds[k] =
                  IF resp.status = "rejected" \/ resp.shape = "object"
                  THEN FetchCatches(@)
                  ELSE IF FetchIds(resp.results) = <<>> THEN FetchReturns(@, <<>>)
                  ELSE [@ EXCEPT !.pc = "read", !.ids = FetchIds(resp.results)]]
    /\ UNCHANGED notFtc

\* hubspot-data.js:18-36 (emails); 50-67, 81-97, 107-114 (the others)
FetchReadSettles(k, resp) ==
    /\ ftc.kinds[k].pc = "read"
    /\ resp \in FetchReads(ftc.kinds[k].ids)
    /\ ftc' = [ftc EXCEPT !.kinds[k] =
                  IF resp.status = "rejected"
                  THEN FetchCatches(@)
                  ELSE FetchReturns([@ EXCEPT !.got = resp.results],
                                    SortNewestFirst(resp.results))]
    /\ UNCHANGED notFtc

\* part_000:295-297  await Promise.all(Object.values(phase3)): resumes when
\* every promise has fulfilled, throws as soon as one has rejected
FetchPhase3Resumes ==
    /\ ftc.pipe = "phase3"
    /\ \/ \E k \in ActivityKinds : ftc.kinds[k].outcome = "rejected"
       \/ \A k \in ActivityKinds : ftc.kinds[k].outcome = "fulfilled"
    /\ ftc' = [ftc EXCEPT !.pipe = IF \E k \in ActivityKinds :
                                          ftc.kinds[k].outcome = "rejected"
                                   THEN "failed" ELSE "synthesis"]
    /\ UNCHANGED notFtc

FetchNext ==
    \/ \E required \in SUBSET ActivityKinds : FetchPhase3(required)
    \/ \E k \in ActivityKinds, resp \in FetchLookups : FetchLookupSettles(k, resp)
    \/ \E k \in ActivityKinds, resp \in AllFetchReads : FetchReadSettles(k, resp)
    \/ FetchPhase3Resumes

FetchSpec == Init /\ [][FetchNext]_vars

\* ------------------------------------ slash commands: /summary and /plan
notCmd == <<credVars, bat, asc, tl, thr, fbd, evtVars, sbt, ftc>>

Commands == {"summary", "plan"}

\* The awaits of the pipeline, in order (part_002:165, 174, 193, 204, 251,
\* 252; part_004:165, 196, 215, 226, 298, 299), and the ones that can reject:
\* the calls of phase 3 catch their own errors.
CmdNextPc(at) ==
    CASE at = "phase1" -> "phase2"
      [] at = "phase2" -> "phase3"
      [] at = "phase3" -> "batch"
      [] at = "batch" -> "openai"
      [] at = "openai" -> "post"

CmdRejectable == {"phase1", "phase2", "batch", "openai", "post"}

clearTimeout(timer) == IF timer = "armed" THEN "cleared" ELSE timer

\* part_002:122-168, part_004:124-172  the handler answers Slack, arms the
\* warning timer and starts the pipeline under waitUntil
CmdHandler(command, hasUrl) ==
    /\ cmd.pc = "idle"
    /\ cmd' = [cmd EXCEPT !.pc = "phase1", !.command = command, !.response_url = hasUrl,
                          !.timer = "armed"]
    /\ UNCHANGED notCmd

\* part_002:148-159, part_004:148-159  the timer's callback
CmdTimerFires ==
    /\ cmd.timer = "armed"
    /\ cmd' = IF ~cmd.finished /\ cmd.response_url
              THEN [cmd EXCEPT !.timer = "fired", !.msgs = Append(@, "warning"),
                               !.warnedAt = cmd.pc]
              ELSE [cmd EXCEPT !.timer = "fired"]
    /\ UNCHANGED notCmd

\* part_002:256-273, part_004:303-320  catch (err)
CmdCatch(c) ==
    [c EXCEPT !.finished = TRUE, !.timer = clearTimeout(@),
              !.msgs = Append(@, "failed"), !.pc = "failPost"]

\* An await of the try block resumes with a value; after findBestDeal, with
\* a deal.
CmdFulfils ==
    /\ cmd.pc \in {"phase1", "phase2", "phase3", "batch"}
    /\ cmd' = [cmd EXCEPT !.pc = CmdNextPc(@)]
    /\ UNCHANGED notCmd

\* An await of the try block throws.
CmdRejects ==
    /\ cmd.pc \in CmdRejectable
    /\ cmd' = CmdCatch(cmd)
    /\ UNCHANGED notCmd

\* part_002:174-178, part_004:196-200  if (!deal) { await postToResponseUrl(...); return; }
CmdNoDeal ==
    /\ cmd.pc = "phase2"
    /\ cmd' = [cmd EXCEPT !.pc = "nodealPost",
                          !.msgs = IF cmd.response_url THEN Append(@, "nodeal") ELSE @]
    /\ UNCHANGED notCmd

\* part_002:251-252, part_004:298-299  the text is there: slackPost is called
CmdOpenAIFulfils ==
    /\ cmd.pc = "openai"
    /\ cmd' = [cmd EXCEPT !.pc = "post", !.msgs = Append(@, "answer")]
    /\ UNCHANGED notCmd

\* part_002:252-255, part_004:299-302  after slackPost
CmdPosted ==
    /\ cmd.pc = "post"
    /\ cmd' = [cmd EXCEPT !.finished = TRUE, !.timer = clearTimeout(@),
                          !.msgs = IF cmd.response_url THEN Append(@, "confirmed") ELSE @,
                          !.pc = "confirm"]
    /\ UNCHANGED notCmd

\* part_002:61-72  postToResponseUrl catches its own errors, and the catch
\* block's slackPost is in a try: the last await always resumes, and the
\* pipeline's function returns
CmdReturns ==
    /\ cmd.pc \in {"nodealPost", "confirm", "failPost"}
    /\ cmd' = [cmd EXCEPT !.pc = "done", !.outcome =
                  CASE cmd.pc = "nodealPost" -> "nodeal"
                    [] cmd.pc = "confirm" -> "answer"
                    [] cmd.pc = "failPost" -> "failure"]
    /\ UNCHANGED notCmd

CmdNext ==
    \/ \E command \in Commands, hasUrl \in BOOLEAN : CmdHandler(command, hasUrl)
    \/ CmdTimerFires
    \/ CmdFulfils
    \/ CmdRejects
    \/ CmdNoDeal
    \/ CmdOpenAIFulfils
    \/ CmdPosted
    \/ CmdReturns

CmdSpec == Init /\ [][CmdNext]_vars

\* ------------------------------------------------ credential cache: claims
Returned(p) == pc[p] = "done" /\ res[p].kind = "ok"

Refreshed(p) == Returned(p) /\ loc[p].upstream = "ok"

\* C1: every token getHubSpotAccessToken() returns, cached or freshly
\* refreshed, has an expiry strictly greater than now + bufferMs at the time
\* it is returned.
C1_ReturnedTokenOutlivesBuffer ==
    \A p \in Callers : Returned(p) => res[p].expiry > res[p].at + bufferMs

\* C2: at most one refresh exchange is in flight at any time.
C2_SingleFlightRefresh ==
    Cardinality({p \in Callers : pc[p] = "exchange"}) <= 1

\* What a call read from Redis was a usable credential when it checked it.
SawUsableCredential(p) ==
    /\ loc[p].refresh # NULL
    /\ loc[p].access # NULL
    /\ ~loc[p].expiresAtMs.nan
    /\ loc[p].expiresAtMs.v # 0
    /\ loc[p].expiresAtMs.v > loc[p].now + bufferMs

\* C3: a call that finds a refresh token and a cached token that is still
\* valid (now < expiresAtMs - buffer) returns that cached token, issues no
\* token-endpoint request and writes no credential key.
C3_ValidCacheIsReturnedUntouched ==
    \A p \in Callers :
        (pc[p] \notin {"idle", "get_access", "get_refresh", "get_expires"}
            /\ SawUsableCredential(p))
        => /\ Returned(p)
           /\ res[p].token = loc[p].access
           /\ nExch[p] = 0
           /\ nWrites[p] = 0

\* C3 witness: every request has been served the same cached token, none of
\* them with a refresh.
C3_Witness ==
    \A p \in Callers :
        /\ Returned(p)
        /\ SawUsableCredential(p)
        /\ res[p].token = CbToken
        /\ nExch[p] = 0

\* C4: as long as no refresh token has ever been stored, a call ends with
\* the not-connected error, has issued no token-endpoint request and has
\* written no credential key, whatever access token is stored.
C4_NotConnectedWithoutRefreshToken ==
    ~everRefresh =>
        \A p \in Callers :
            /\ pc[p] \in {"idle", "get_access", "get_refresh", "get_expires", "done"}
            /\ pc[p] = "done" => res[p].kind = "NotConnected"
            /\ nExch[p] = 0
            /\ nWrites[p] = 0

\* C4 witness: an access token is stored, no refresh token ever was, and a
\* call has failed with the not-connected error.
C4_Witness ==
    /\ ~everRefresh
    /\ store.access # NULL
    /\ \E p \in Callers :
        pc[p] = "done" /\ res[p].kind = "NotConnected" /\ loc[p].access # NULL

\* C5: a call whose refresh exchange the upstream rejected fails with the
\* refresh error, has made exactly one exchange attempt and has written no
\* credential key.
C5_RejectedRefreshSurfacesOnce ==
    \A p \in Callers :
        loc[p].upstream = "rejected"
        => /\ pc[p] = "done"
           /\ res[p].kind = "RefreshFailed"
           /\ nExch[p] = 1
           /\ nWrites[p] = 0

\* C5 witness: a stored access token was expired, the exchange was rejected
\* and the call has failed.
C5_Witness ==
    \E p \in Callers :
        /\ pc[p] = "done"
        /\ loc[p].upstream = "rejected"
        /\ loc[p].access # NULL
        /\ loc[p].expiresAtMs.v # 0
        /\ res[p].kind = "RefreshFailed"

\* C6: when a refreshing call returns, the stored access token is the token
\* it returns and the stored expiry is the refresh time plus the lifetime
\* the upstream reported.
C6_RefreshIsPersisted ==
    \A p \in Callers :
        Refreshed(p)
        => /\ res[p].stored.access = res[p].token
           /\ Number(res[p].stored.expires)
                = [nan |-> FALSE, v |-> loc[p].exchangedAt + loc[p].lifetime * 1000]

\* ------------------------------------------------------- batchRead: claims
Count(s, x) == Cardinality({i \in DOMAIN s : s[i] = x})

SameMultiset(s, t) ==
    /\ Len(s) = Len(t)
    /\ \A x \in Range(s) \cup Range(t) : Count(s, x) = Count(t, x)

\* C7: a call with more ids than the batch ceiling issues ceil(|ids| / 50)
\* batch requests and returns at most |ids| records.
C7_ChunkedRequests ==
    (bat.pc = "done" /\ bat.outcome = "ok" /\ Len(bat.ids) > BatchCeiling)
    => /\ bat.requests = (Len(bat.ids) + BatchCeiling - 1) \div BatchCeiling
       /\ Len(bat.results) <= Len(bat.ids)

\* C8: a call that returns normally (the upstream answered with a results
\* array) returns the requested ids minus those the upstream reports as not
\* found, as a multiset; a rejected batch request fails the call.
C8_NoRecordDropped ==
    /\ (bat.pc = "done" /\ bat.outcome = "ok" /\ bat.hasResults)
        => SameMultiset(bat.results, Without(bat.ids, bat.notFound))
    /\ (bat.pc = "done" /\ bat.outcome = "error") => bat.results = <<>>

\* C9: a call with an empty id list returns the empty list and issues no
\* request.
C9_EmptyIdsShortCircuit ==
    Len(bat.ids) = 0
    => /\ bat.pc \in {"idle", "done"}
       /\ bat.requests = 0
       /\ bat.results = <<>>
       /\ bat.pc = "done" => bat.outcome = "ok"

\* C9 witness: a call with an empty id list has returned.
C9_Witness ==
    bat.pc = "done" /\ bat.ids = <<>> /\ bat.outcome = "ok" /\ bat.requests = 0

\* --------------------------------------------- getDealAssociations: claims
\* `ids` are the truthy toObjectId values of the rows of a fulfilled lookup.
IsIdsOf(ids, lookup) ==
    LET rows == IF lookup.has_results THEN lookup.results ELSE <<>>
        kept == {i \in DOMAIN rows : rows[i].toObjectId # 0}
    IN /\ Len(ids) = Cardinality(kept)
       /\ \A k \in DOMAIN ids :
            LET i == CHOOSE j \in kept : Cardinality({m \in kept : m < j}) = k - 1
            IN ids[k] = rows[i].toObjectId

\* C10: getDealAssociations never fails; a rejected lookup gives the empty id
\* list for its relation and a fulfilled one gives its ids, whatever happened
\* to the other lookup.
C10_AssociationsNeverFail ==
    /\ asc.outcome # "error"
    /\ asc.pc = "done"
        => /\ asc.outcome = "ok"
           /\ asc.contacts.status = "rejected" => asc.contactIds = <<>>
           /\ asc.companies.status = "rejected" => asc.companyIds = <<>>
           /\ asc.contacts.status = "fulfilled" => IsIdsOf(asc.contactIds, asc.contacts)
           /\ asc.companies.status = "fulfilled" => IsIdsOf(asc.companyIds, asc.companies)

\* C10 witness: the companies lookup was rejected and the contacts of the
\* deal are returned all the same.
C10_Witness ==
    /\ asc.pc = "done"
    /\ asc.companies.status = "rejected"
    /\ asc.contacts.status = "fulfilled"
    /\ asc.companyIds = <<>>
    /\ Len(asc.contactIds) = MaxAssocLen

\* ------------------------------------- formatTimelineForPrompt: claims
TlDone == tl.pc = "done"

\* Every argument is null or the empty list.
AllArgsEmpty == \A k \in Kinds : tl[k].null \/ tl[k].list = <<>>

\* The number of lines of the returned text.
OutLineCount == 1 + Cardinality({i \in 1..Len(tl.out) : tl.out[i] = "\n"})

\* text is the lines of shown[k..], each on a line of its own, from index start on.
RECURSIVE ShowsFrom(_, _, _, _)
ShowsFrom(text, shown, k, start) ==
    IF k > Len(shown) THEN start = Len(text) + 2
    ELSE LET l == shown[k].line
         IN  /\ start + Len(l) - 1 <= Len(text)
             /\ SubSeq(text, start, start + Len(l) - 1) = l
             /\ k < Len(shown) => /\ start + Len(l) <= Len(text)
                                  /\ text[start + Len(l)] = "\n"
             /\ ShowsFrom(text, shown, k + 1, start + Len(l) + 1)

\* The record of an item had a timestamp.
HasTimestamp(item) == item.timestamp # <<"0">>

\* No item of later comes from a record that is more recent than one of
\* earlier, among the records that have a timestamp.
NoneNewerThan(earlier, later) ==
    \A i \in 1..Len(earlier), j \in 1..Len(later) :
        (earlier[i].has /\ later[j].has) => earlier[i].at >= later[j].at

RECURSIVE Stamps(_, _)
Stamps(items, i) ==
    IF i > Len(items) THEN <<>>
    ELSE <<[has |-> HasTimestamp(items[i]),
            at |-> IF HasTimestamp(items[i]) THEN DateNumber(items[i].timestamp) ELSE 0]>>
         \o Stamps(items, i + 1)

\* C11: formatTimelineForPrompt never returns the empty string: all-empty or
\* null arguments give the fixed sentinel text, any other arguments a
\* non-empty text.
C11_TimelineTextNeverEmpty ==
    TlDone => /\ Len(tl.out) > 0
              /\ AllArgsEmpty => tl.out = NoActivity

\* C11 witness: the call was made with four empty lists and returned the
\* sentinel.
C11_Witness ==
    /\ TlDone
    /\ \A k \in Kinds : ~tl[k].null /\ tl[k].list = <<>>
    /\ tl.out = NoActivity

C14_MissingTimestampSortsOldest ==
    TlDone =>
        \A i \in 1..Len(tl.items), j \in 1..Len(tl.items) :
            i < j => ~(~HasTimestamp(tl.items[i]) /\ HasTimestamp(tl.items[j]))

\* C15: every rendered line, whatever the kind and the content of its record,
\* has a length of at most a fixed budget of characters.
C15_LineWithinBudget ==
    TlDone => \A i \in 1..Len(tl.items) : Len(tl.items[i].line) <= LineBudget

\* A text holds a tag: a "<" with a ">" somewhere after it.
HoldsTag(text) ==
    \E i \in 1..Len(text), j \in 1..Len(text) : i < j /\ text[i] = "<" /\ text[j] = ">"

\* C16: no rendered line contains raw markup: the tags of an email text or
\* html body, of a call body, of a meeting body or of a note body never appear
\* in the line, those that only appear after entity decoding included.
C16_NoRawMarkup ==
    TlDone => \A i \in 1..Len(tl.items) : ~HoldsTag(tl.items[i].line)

\* ------------------------------------------------ thread context: claims
\* The step by which caller p leaves the await it is suspended at.
Resumes(p, fn, at) ==
    /\ thr.call[p].fn = fn
    /\ thr.call[p].pc = at
    /\ thr'.call[p].pc # at

\* A context is stored under the key: written, and not yet 24 h ago.
Stored(entry, t) == entry.set /\ t <= entry.writtenAt + ThreadTtl

\* C17: addMessageToThread on a key with no stored context returns null and
\* writes nothing: the store is unchanged and the key still does not exist.
C17_AppendWithoutContextIsNoOp ==
    [][\A p \in ThrCallers :
         (Resumes(p, "add", "get") /\ ~Stored(thr.redis[thr.call[p].key], thr.clock))
         => /\ thr'.call[p].pc = "done"
            /\ thr'.call[p].result.null
            /\ thr'.call[p].writes = 0
            /\ thr'.redis = thr.redis
            /\ ~Stored(thr'.redis[thr.call[p].key], thr'.clock)]_vars

\* C17 witness: an addMessageToThread has returned null for a thread that no
\* context was ever stored for, and there is none now.
C17_Witness ==
    \E p \in ThrCallers :
        /\ thr.call[p].fn = "add"
        /\ thr.call[p].pc = "done"
        /\ thr.call[p].result.null
        /\ thr.call[p].writes = 0
        /\ ~thr.redis[thr.call[p].key].set

\* C18: storeThreadContext followed by addMessageToThread on the same key,
\* with no other write in between, leaves a stored context whose messages are
\* the stored list with the one new message at the end, and the same dealId.
C18_AppendAddsOneMessageAtEnd ==
    [][\A p \in ThrCallers, q \in ThrCallers :
         LET key == thr.call[p].key
         IN  (/\ Resumes(p, "add", "set")
              /\ thr.call[q].fn = "store"
              /\ thr.call[q].pc = "done"
              /\ thr.call[q].key = key
              /\ thr.redis[key].value = thr.call[q].data
              /\ thr.call[p].readFrom = thr.redis[key])
             => LET after == JsonParse(thr'.redis[key].value)
                IN  /\ after.messages = thr.call[q].messages \o <<thr.call[p].message>>
                    /\ after.dealId = thr.call[q].dealId
                    /\ thr'.call[p].result.context.messages = after.messages]_vars

\* C18 witness: a context stored with two messages and a deal id holds three
\* messages after the append, which returned them.
C18_Witness ==
    \E p \in ThrCallers, q \in ThrCallers :
        /\ thr.call[q].fn = "store" /\ thr.call[q].pc = "done" /\ thr.call[q].dealId = "D1"
        /\ thr.call[p].fn = "add" /\ thr.call[p].pc = "done" /\ thr.call[p].key = thr.call[q].key
        /\ thr.call[p].writes = 1
        /\ thr.call[p].result.context.messages = <<"q1", "a1", "q2">>
        /\ thr.redis[thr.call[p].key].value = thr.call[p].data

\* C19: every write to a thread-context key, by storeThreadContext or by
\* addMessageToThread, sets its time to live to the full 24 h from the write;
\* getThreadContext returns the context until 24 h after the last write and
\* null after that.
C19_EveryWriteRestartsTtl ==
    [][/\ \A k \in ThreadKeys :
            thr'.redis[k] # thr.redis[k]
            => /\ thr'.redis[k].set
               /\ thr'.redis[k].expireAt = thr.clock + ThreadTtl
       /\ \A p \in ThrCallers :
            Resumes(p, "get", "get")
            => LET entry == thr.redis[thr.call[p].key]
               IN  IF Stored(entry, thr.clock)
                   THEN /\ ~thr'.call[p].result.null
                        /\ thr'.call[p].result.context = JsonParse(entry.value)
                   ELSE thr'.call[p].result.null]_vars

\* C19 witness: a context is read more than 24 h after it was created, an
\* append having restarted its time to live meanwhile.
C19_Witness ==
    \E p \in ThrCallers :
        /\ thr.call[p].fn = "get"
        /\ thr.call[p].pc = "done"
        /\ ~thr.call[p].result.null
        /\ thr.call[p].readAt > ThreadTtl
        /\ Len(thr.call[p].result.context.messages) = 3

FbdReturned == fbd.pc = "done" /\ fbd.outcome = "returned"

HasCloseDate(c) == c.closedate # <<>>

Issued(c) == orc.calls[c] # "none"
InFlight(c) == orc.calls[c] \in {"token", "pending"}

\* The requests of that kind, and the messages that are in the channel.
PostsOf(kind) == {i \in 1..Len(slk.posts) : slk.posts[i].kind = kind}
Delivered == {i \in 1..Len(slk.posts) : slk.posts[i].status = "ok"}
PipelineDelivered == {i \in Delivered : slk.posts[i].by = "pipeline"}

\* The questions of the events, as extractQuestionFromMention returns them.
QuestionOwner ==
    <<"w", "h", "o", " ", "i", "s", " ", "t", "h", "e", " ", "s", "a", "l",
      "e", "s", " ", "o", "w", "n", "e", "r">>
QuestionCalls ==
    <<"a", "n", "y", " ", "c", "a", "l", "l", "s", " ", "w", "i", "t", "h",
      " ", "t", "h", "e", "m", " ", "r", "e", "c", "e", "n", "t", "l", "y",
      "?">>

\* C21: the phases of handleAppMention are in order. While a call of phase 1
\* (bot identity, channel object, HubSpot token) has not fulfilled, no call of
\* phase 2 (deal search, channel history) is made; while a call of phase 2 is
\* in flight, none of phase 3 (owner, associations, activities, thread
\* context); while a call of phase 3 is in flight no batch read, and the
\* batch reads come after the associations; while any of them is in flight,
\* no call of the language model.
C21_PhasesInOrder ==
    /\ (\E c \in Phase2Calls \cup {"getSlackChannelName"} : Issued(c))
           => \A c \in Phase1Calls : orc.calls[c] = "fulfilled"
    /\ (\E c \in Phase3Calls : Issued(c))
           => /\ orc.calls["findBestDeal"] = "fulfilled"
              /\ ~InFlight("getChannelHistory")
              /\ ~InFlight("getSlackChannelName")
    /\ (\E c \in BatchCalls : Issued(c))
           => /\ orc.calls["getDealAssociations"] = "fulfilled"
              /\ \A c \in Phase3Calls : ~InFlight(c)
    /\ Issued("callOpenAIForQA")
           => \A c \in Phase1Calls \cup Phase2Calls \cup Phase3Calls \cup BatchCalls :
                  ~InFlight(c)
    /\ (Issued("storeThreadContext") \/ PostsOf("answer") # {})
           => orc.calls["callOpenAIForQA"] = "fulfilled"

\* The language model is called after a phase 3 with every fetch in it, the
\* thread's history included, and both batch reads.
C21_Witness ==
    /\ orc.calls["callOpenAIForQA"] = "pending"
    /\ orc.calls["getChannelHistory"] = "fulfilled"
    /\ orc.calls["fetchDealCalls"] = "fulfilled"
    /\ orc.calls["fetchDealMeetings"] = "fulfilled"
    /\ orc.calls["getThreadHistory"] = "fulfilled"
    /\ orc.calls["batchRead contacts"] = "fulfilled"
    /\ orc.calls["batchRead companies"] = "fulfilled"

\* C22: when the deal search finds no deal, handleAppMention makes no call of
\* phase 3 or 4 (no owner, association, activity or batch read, no thread
\* context read or write, no call of the language model) and posts no answer;
\* its one message is the "no deal" message: when it returns without an
\* error, that message is in the channel and is the only request it made, and
\* in any case at most one message of it is in the channel.
C22_NoDealShortCircuits ==
    orc.deal = "none" =>
        /\ \A c \in Phase3Calls \cup BatchCalls \cup Phase4Calls : ~Issued(c)
        /\ PostsOf("answer") = {} /\ PostsOf("greeting") = {}
        /\ Cardinality(PostsOf("nodeal")) <= 1
        /\ Cardinality(PipelineDelivered) <= 1
        /\ (orc.pc = "done" /\ ~orc.threw) =>
               /\ Cardinality(PostsOf("nodeal")) = 1
               /\ PipelineDelivered = PostsOf("nodeal")
               /\ {i \in 1..Len(slk.posts) : slk.posts[i].by = "pipeline"} = PostsOf("nodeal")

\* No deal was found, the message was posted and handleAppMention returned.
C22_Witness ==
    /\ orc.deal = "none"
    /\ orc.pc = "done"
    /\ ~orc.threw
    /\ Len(slk.posts) = 1
    /\ slk.posts[1].kind = "nodeal"
    /\ slk.posts[1].status = "ok"

\* C23: the promise of handleAppMention never rejects, whatever call fails
\* in whatever phase, the request of safeErrorPost included; so
\* withTimeoutNotification never throws to the handler.
C23_NeverRejects ==
    /\ orc.promise # "rejected"
    /\ ntf.work # "rejected"
    /\ ntf.pc # "threw"
    /\ orc.pc = "done" => orc.promise = "fulfilled"

\* A call failed, the catch block's own request failed too, and
\* handleAppMention returned.
C23_Witness ==
    /\ orc.pc = "done"
    /\ orc.threw
    /\ orc.promise = "fulfilled"
    /\ PostsOf("error") # {}
    /\ \A i \in PostsOf("error") : slk.posts[i].status = "failed"

\* C24: when handleAppMention has ended with an error, exactly one message
\* that tells of the error is in the originating channel and thread.
C24_ExactlyOneFailureMessage ==
    (orc.pc = "done" /\ orc.threw) =>
        Cardinality({i \in PostsOf("error") \cap Delivered :
                        /\ slk.posts[i].channel = orc.channel_id
                        /\ slk.posts[i].thread_ts = orc.thread_ts}) = 1

\* C25: when the work has settled before the ceiling, by fulfilling or by
\* rejecting, the timer callback does not call safeErrorPost and no progress
\* message is ever requested.
C25_SettledWorkNoNotice ==
    ntf.atCeiling # "pending" => (ntf.fired = 0 /\ PostsOf("notice") = {})

\* The work rejected, then the ceiling elapsed in a process that has a token:
\* nothing was posted.
C25_Witness ==
    /\ ntf.atCeiling = "rejected"
    /\ ntf.pc = "threw"
    /\ ntf.timer = "resolved"
    /\ slk.cachedToken
    /\ slk.posts = <<>>

\* C26: the timer callback runs once. When the ceiling elapses with the work
\* still pending it calls safeErrorPost with the progress message exactly
\* once, which makes one request when the process has a token, never two,
\* whenever the work settles afterwards.
C26_FiresExactlyOnce ==
    /\ ntf.fired <= 1
    /\ Cardinality(PostsOf("notice")) <= 1
    /\ ntf.atCeiling = "pending" =>
           /\ ntf.fired = 1
           /\ slk.cachedToken => Cardinality(PostsOf("notice")) = 1

\* The ceiling elapsed with the work pending, and the work fulfilled while
\* the progress message's request was in flight.
C26_Witness ==
    /\ ntf.atCeiling = "pending"
    /\ ntf.timer = "posting"
    /\ ntf.work = "fulfilled"
    /\ ntf.finished
    /\ ntf.fired = 1
    /\ Cardinality(PostsOf("notice")) = 1

\* The steps of the timer: its callback, and the end of its request.
TimerStep == ntf.timer \in {"armed", "posting"} /\ ntf'.timer # ntf.timer

\* C27: no step of the timer changes anything of handleAppMention. When the
\* ceiling elapses during the call of the language model, the progress
\* message is requested then, before the answer; when handleAppMention then
\* returns without an error, the requests made are the progress message and
\* the answer, in that order, and the answer is in the channel.
C27_NoticeThenAnswer ==
    /\ [][TimerStep => orc' = orc]_vars
    /\ [](ntf.during = "synthesis" =>
            /\ Len(slk.posts) >= 1
            /\ slk.posts[1].kind = "notice"
            /\ \A i \in PostsOf("answer") : i = 2
            /\ (orc.pc = "done" /\ ~orc.threw) =>
                   /\ Len(slk.posts) = 2
                   /\ slk.posts[2].kind = "answer"
                   /\ slk.posts[2].status = "ok")

\* The ceiling elapsed during the call of the language model; both messages
\* are in the channel.
C27_Witness ==
    /\ ntf.during = "synthesis"
    /\ orc.pc = "done"
    /\ ~orc.threw
    /\ Len(slk.posts) = 2
    /\ slk.posts[1].kind = "notice" /\ slk.posts[1].status = "ok"
    /\ slk.posts[2].kind = "answer" /\ slk.posts[2].status = "ok"

\* q contains one of the activity words, whatever the case of its letters.
ContainsActivityWord(q) ==
    \E k \in 1..Len(ActivityWords) :
        \E i \in 1..Len(q) :
            /\ i + Len(ActivityWords[k]) - 1 <= Len(q)
            /\ ToLowerCase(SubSeq(q, i, i + Len(ActivityWords[k]) - 1)) = ActivityWords[k]

\* Phase 3 has just started: none of its calls has settled.
Phase3Started ==
    /\ orc.pc = "phase3"
    /\ \A c \in Phase3Calls : orc.calls[c] \in {"none", "pending"}
    /\ orc.calls["getThreadHistory"] = "none"
    /\ ntf.timer = "armed"

\* C29: requiredData always has emails, notes, contacts and companies; calls
\* and meetings are equal, true when the question contains an activity word
\* and false when it contains none ("any calls with them recently?": true,
\* "who is the sales owner": false). The calls and the meetings are fetched
\* only when requiredData says so.
C29_CallsAndMeetingsByKeyword ==
    /\ Issued("fetchDealCalls") => orc.requiredData.calls
    /\ Issued("fetchDealMeetings") => orc.requiredData.meetings
    /\ orc.pc \in {"phase3", "batch", "openai", "post", "store"} =>
           /\ orc.requiredData.emails /\ orc.requiredData.notes
           /\ orc.requiredData.contacts /\ orc.requiredData.companies
           /\ orc.requiredData.calls = orc.requiredData.meetings
           /\ Issued("fetchDealEmails") /\ Issued("fetchDealNotes")
           /\ Issued("fetchDealCalls") = orc.requiredData.calls
           /\ Issued("fetchDealMeetings") = orc.requiredData.meetings
           /\ orc.question = QuestionCalls => orc.requiredData.calls
           /\ orc.question = QuestionOwner => ~orc.requiredData.calls
    /\ Phase3Started => orc.requiredData.calls = ContainsActivityWord(orc.question)

\* "any calls with them recently?": the calls and the meetings are fetched.
C29_Witness ==
    /\ orc.question = QuestionCalls
    /\ orc.requiredData.calls /\ orc.requiredData.meetings
    /\ orc.calls["fetchDealCalls"] = "fulfilled"
    /\ orc.calls["fetchDealMeetings"] = "fulfilled"
    /\ orc.calls["fetchDealEmails"] = "fulfilled"

\* C30: the channel history is asked for only when the channel object says
\* is_channel: true and is_private: false; for a private channel or a
\* conversation that is no channel no such request is ever made.
C30_HistoryOnlyIfPublic ==
    Issued("getChannelHistory") =>
        /\ orc.channelInfo.is_channel = "true"
        /\ orc.channelInfo.is_private = "false"

\* The mention came in a private channel; the answer was posted and no
\* history was asked for.
C30_Witness ==
    /\ orc.channelInfo = PrivateInfo
    /\ orc.pc = "done"
    /\ ~orc.threw
    /\ PostsOf("answer") # {}
    /\ ~Issued("getChannelHistory")

\* ------------------------------------- credential cache: interleaved writers
\* The expiry that was issued together with a token: by the exchange of the
\* OAuth callback, or by the refresh of the request the token is named after.
IssuedExpiry(token) ==
    IF token = CbToken THEN cb.expiresAtMs ELSE loc[token].newExpiresAt

\* Request p returned the token it read from the cache, without an exchange.
ReturnedCached(p) == pc[p] = "done" /\ res[p].kind = "ok" /\ nExch[p] = 0

\* C35: whatever the interleaving of getHubSpotAccessToken() with a refresh
\* or with the OAuth callback, a token returned as still valid was checked
\* against its own expiry: the expiry read is the one issued with the token.
C35_TokenMatchesCheckedExpiry ==
    \A p \in Callers : ReturnedCached(p) => res[p].expiry = IssuedExpiry(res[p].token)

\* ------------------------------------------ thread context: concurrent appends
\* The messages of the context stored for the first caller's thread.
StoredMessages == JsonParse(thr.redis[thr.call[1].key].value).messages

Holds(messages, m) == \E i \in 1..Len(messages) : messages[i] = m

\* Callers p and q both appended, and each read the context before the other
\* wrote it.
BothReadFirst(p, q) ==
    /\ p # q
    /\ thr.call[p].fn = "add" /\ thr.call[q].fn = "add"
    /\ thr.call[p].writes = 1 /\ thr.call[q].writes = 1
    /\ thr.call[p].readFrom = thr.call[q].readFrom

\* C34: appends to one key are not serialized. When two addMessageToThread
\* calls on the same key have both read the context before either wrote it,
\* the context stored afterwards does not hold both messages: the second
\* write replaces the first, whose message is lost.
C34_ConcurrentAppendLosesOne ==
    \A p, q \in ThrCallers :
        BothReadFirst(p, q) =>
            ~(Holds(StoredMessages, ReplyMessage(p)) /\ Holds(StoredMessages, ReplyMessage(q)))

\* Both calls returned a context, and the stored context is the first turn
\* followed by one message only.
C34_Witness ==
    /\ BothReadFirst(2, 3)
    /\ thr.call[2].pc = "done" /\ thr.call[3].pc = "done"
    /\ ~thr.call[2].result.null /\ ~thr.call[3].result.null
    /\ Len(StoredMessages) = Len(FirstTurn) + 1
    /\ Holds(StoredMessages, ReplyMessage(2))
    /\ ~Holds(StoredMessages, ReplyMessage(3))

\* ------------------------------------------- events handler: the keep-alive
\* The promise handed to waitUntil has settled: withTimeoutNotification
\* returned or threw (part_000:419-427, the .catch only logs).
KeepAliveSettled == ntf.pc \in {"returned", "threw"}

\* C37: the promise handed to waitUntil does not settle before
\* handleAppMention has settled, also when the ceiling elapses first.
C37_KeepAliveOutlastsPipeline == KeepAliveSettled => orc.pc = "done"

\* --------------------------------------- events handler: the thread's context
\* A step of the try block that ends in the catch block.
Aborts == orc.pc \in AwaitingPcs /\ orc'.pc \in {"catch", "done"} /\ orc'.threw

\* C40: for a mention in a thread the cache is read first and the thread's
\* history is asked of Slack only after a miss; after a hit it is never
\* asked for. A history request that fails does not end the pipeline: phase 3
\* is aborted only by another call's rejection. For a mention outside a
\* thread neither the cache nor the history is read.
C40_CacheFirstThenHistory ==
    /\ [](/\ Issued("getThreadHistory") =>
                /\ orc.thread_ts # <<>>
                /\ orc.calls["getThreadContext"] = "fulfilled"
                /\ orc.cached = "miss"
          /\ orc.cached = "hit" => ~Issued("getThreadHistory")
          /\ Issued("getThreadContext") => orc.thread_ts # <<>>
          /\ orc.thread_ts = <<>> =>
                (~Issued("getThreadContext") /\ ~Issued("getThreadHistory")))
    /\ [][(Aborts /\ orc.pc = "phase3") =>
              \E c \in Phase3Calls \ CaughtCalls : orc.calls[c] = "rejected"]_vars

\* The cache missed, the history request failed, and the answer was posted
\* all the same.
C40_Witness ==
    /\ orc.cached = "miss"
    /\ orc.calls["getThreadHistory"] = "rejected"
    /\ orc.pc = "done"
    /\ ~orc.threw
    /\ PipelineDelivered = PostsOf("answer")
    /\ PostsOf("answer") # {}

\* The thread context keys that hold something.
WrittenKeys == {k \in DOMAIN thr.redis : thr.redis[k].set}

\* The key of the answer's thread: the mention's thread, or the thread the
\* answer starts.
AnswerKey == ThreadKey(orc.channel_id, ResponseThreadTs(orc))

\* C32: the thread context is written when the turn has succeeded, and only
\* then. The write is requested only after the answer is in the channel; a
\* key that is written is the key of the answer's thread and holds the turn's
\* question and answer and the deal id; when handleAppMention returns without
\* an error after an answer, the key is written. With no deal, with an empty
\* question, or with a failure before the answer is posted, no key is
\* written.
C32_ContextWrittenOnSuccess ==
    /\ Issued("storeThreadContext") =>
           (PostsOf("answer") # {} /\ PostsOf("answer") \subseteq Delivered)
    /\ WrittenKeys # {} =>
           /\ orc.calls["storeThreadContext"] = "fulfilled"
           /\ WrittenKeys = {AnswerKey}
           /\ JsonParse(thr.redis[AnswerKey].value).messages = FirstTurn
           /\ JsonParse(thr.redis[AnswerKey].value).dealId = ResolvedDealId
    /\ (orc.pc = "done" /\ ~orc.threw /\ PostsOf("answer") # {}) => WrittenKeys = {AnswerKey}
    /\ (orc.deal = "none" \/ PostsOf("greeting") # {}) => WrittenKeys = {}
    /\ (orc.threw /\ PostsOf("answer") \cap Delivered = {}) => WrittenKeys = {}

\* A mention outside a thread was answered: the context is stored under the
\* ts of the answer.
C32_Witness ==
    /\ orc.pc = "done"
    /\ ~orc.threw
    /\ orc.thread_ts = <<>>
    /\ WrittenKeys = {ThreadKey(EventChannel, ResponseTs)}
    /\ thr.redis[AnswerKey].owner = <<EventChannel, ResponseTs>>

\* ------------------------------------------------- thread context: the turns
\* The first n turns were mentions in one thread, all answered, the last of
\* them just now, and no time has passed.
TurnsInOneThread(n) ==
    /\ thr.advances = 0
    /\ \A p \in 1..n : /\ thr.call[p].fn = "store"
                       /\ thr.call[p].pc = "done"
                       /\ thr.call[p].key = thr.call[1].key
    /\ \A p \in ThrCallers : p > n => thr.call[p].pc = "idle"

RECURSIVE MessagesOfTurns(_)
MessagesOfTurns(n) == IF n = 0 THEN <<>> ELSE MessagesOfTurns(n - 1) \o TurnMessages(n)

\* C31: after the turns of a thread, the stored context holds the question
\* and the answer of every turn, in the order of the turns.
C31_ContextAccumulatesTurns ==
    \A n \in ThrCallers :
        TurnsInOneThread(n) =>
            JsonParse(thr.redis[thr.call[1].key].value).messages = MessagesOfTurns(n)

\* ------------------------------------------------ getSlackBotToken: claims
SbtDone == sbt.call.pc = "done"

\* C33: when Redis is unreachable, getSlackBotToken returns the token of the
\* environment if one is set (it is returned before Redis is asked); if none
\* is set, the error of the read that got no answer is thrown to the caller
\* and no token is returned.
C33_UnreachableStoreFallsBackToEnv ==
    SbtDone =>
        /\ (sbt.call.envToken # Nil /\ ~sbt.call.upAtCall) =>
               (sbt.call.outcome = "returned" /\ sbt.call.token = sbt.call.envToken)
        /\ (sbt.call.envToken = Nil /\ sbt.call.readFailed) =>
               /\ sbt.call.outcome = "threw"
               /\ sbt.call.error = "Redis read timeout"
               /\ sbt.call.token = Nil

C33_Witness ==
    /\ SbtDone
    /\ sbt.call.envToken = Nil
    /\ sbt.call.readFailed
    /\ sbt.call.access # Nil
    /\ sbt.call.outcome = "threw"

\* C39: with no token in the environment, getSlackBotToken returns the
\* cached token only when an expiry is stored with it and the buffer before
\* that expiry has not begun; otherwise it returns the token of a refresh or
\* throws.
C39_NeverReturnsUnusableToken ==
    (SbtDone /\ sbt.call.envToken = Nil /\ sbt.call.outcome = "returned") =>
        \/ sbt.call.token = sbt.call.newAccess
        \/ /\ sbt.call.token = sbt.call.access
           /\ TruthyNumber(sbt.call.expiresAtMs)
           /\ sbt.call.now < sbt.call.expiresAtMs.v - SLACK_REFRESH_BUFFER_MS

\* ----------------------------------------------- per-kind fetches: claims
\* C38: no per-kind fetch rejects: when its association lookup or its batch
\* read fails it resolves to the empty list; a kind whose lookup and read
\* succeeded keeps its records whatever happened to the others, and phase 3
\* never fails because of a fetch.
C38_FetchesNeverThrow ==
    /\ ftc.pipe # "failed"
    /\ \A k \in ActivityKinds :
           /\ ftc.kinds[k].outcome # "rejected"
           /\ ftc.kinds[k].failed =>
                  (ftc.kinds[k].outcome = "fulfilled" /\ ftc.kinds[k].value = <<>>)
           /\ (ftc.kinds[k].pc = "done" /\ ~ftc.kinds[k].failed) =>
                  /\ Len(ftc.kinds[k].value) = Len(ftc.kinds[k].got)
                  /\ \A i \in 1..Len(ftc.kinds[k].got) :
                         \E j \in 1..Len(ftc.kinds[k].value) :
                             ftc.kinds[k].value[j] = ftc.kinds[k].got[i]

C38_Witness ==
    /\ ftc.pipe = "synthesis"
    /\ ftc.kinds["emails"].failed /\ ftc.kinds["emails"].ids = <<>>
    /\ ftc.kinds["calls"].failed /\ ftc.kinds["calls"].ids # <<>>
    /\ Len(ftc.kinds["notes"].value) = 2

\* ------------------------------------------------- slash commands: claims
\* C36: in /summary and /plan the warning is never posted once the pipeline
\* has come to its end (answer posted, failure, or no deal found): by then
\* the timer is cleared or its callback finds the flag set.
C36_NoWarningAfterTerminal == cmd.warnedAt # "done"

====
